---- MODULE Spec2Model ----
(***************************************************************************)
(* Verification model of the chris-assistant runtime core: the tool        *)
(* registry and its loop detector (src/tools/registry.ts), the context     *)
(* compaction engine (providers/compaction.ts) and the OpenAI turn loop    *)
(* (src/providers/openai.ts).                                              *)
(***************************************************************************)
EXTENDS Integers, Sequences, FiniteSets, Bags, TLC

VARIABLES
    tools,              \* registry.ts: Map<string, ToolRegistration>
    recentFingerprints, \* registry.ts: process-wide loop-detector buffer
    executed,           \* executor invocations so far: <<name, argsJson>>
    dlog,               \* dispatchToolCall calls so far (history)
    cachedSystemPrompt, \* shared.ts: TRUE when a prompt is cached (not null)
    pc,                 \* chat(): where the turn sequence stands
    messages,           \* chat(): the running message list
    turn,               \* chat(): the loop index
    toolCallsArray,     \* chat(): the calls of the turn being executed
    nextCall,           \* chat(): index of the next call to dispatch
    outcome,            \* how chat() ended, and the string it returned
    responses,          \* what each primary backend call produced (history)
    compaction,         \* what the last compaction attempt did (history)
    backendCalls,       \* calls issued by compaction and for the summary
    keep,               \* compactMessages: keepRecentTurns
    requests,           \* the requests sent to the backend, with their replies (history)
    lastPromptLoad,     \* shared.ts: lastPromptLoad
    cachedFrom,         \* which state of the memory files cachedSystemPrompt was built from
    clock,              \* Date.now() as shared.ts reads it, in minutes
    invalidations,      \* how many times invalidatePromptCache has returned (history)
    loads,              \* the getSystemPrompt calls: where each one is, what it read
    dateNow,            \* Date.now() as the other modules read it, in ms since start
    events,             \* what those modules' operations did, in order (history)
    toolCallAccumulator,\* chat(): the tool calls reassembled from the stream so far
    userTimestamps,     \* rate-limit.ts: Map<userId, timestamps of the allowed messages>
    conversations,      \* conversation.ts: the cache, or null before the first use
    conversationsFile,  \* conversation.ts: what conversations.json holds
    schedules,          \* scheduler.ts: the tasks, each with enabled and lastRun
    executing,          \* scheduler.ts: the executeTask calls under way
    alertState,         \* health.ts: Map<check name, {alerted, lastAlertTime}>
    lastReplaceTime,    \* memory/tools.ts: Map<category, time of the last replace>
    memoryCalls,        \* memory/tools.ts: the executeMemoryTool calls under way
    rateResult,         \* what the last checkRateLimit call returned, and for whom (history)
    checking            \* health.ts: the processCheckResult call under way, if any

regVars == <<tools, recentFingerprints, executed, dlog>>

promptVars == <<lastPromptLoad, cachedFrom, clock, invalidations, loads>>

sideVars == <<dateNow, events, toolCallAccumulator, userTimestamps, conversations,
              conversationsFile, schedules, executing, alertState, lastReplaceTime,
              memoryCalls, rateResult, checking>>

\* every variable of the registry, the turn loop and the prompt cache
coreVars == <<regVars, cachedSystemPrompt, pc, messages, turn, toolCallsArray, nextCall,
              outcome, responses, compaction, backendCalls, keep, requests, promptVars>>

chatVars == <<cachedSystemPrompt, pc, messages, turn, toolCallsArray, nextCall, outcome,
              responses, compaction, backendCalls, keep, requests, promptVars, sideVars>>

vars == <<tools, recentFingerprints, executed, dlog, cachedSystemPrompt, pc, messages, turn,
          toolCallsArray, nextCall, outcome, responses, compaction, backendCalls, keep,
          requests, lastPromptLoad, cachedFrom, clock, invalidations, loads, dateNow, events,
          toolCallAccumulator, userTimestamps, conversations, conversationsFile, schedules,
          executing, alertState, lastReplaceTime, memoryCalls, rateResult, checking>>

-----------------------------------------------------------------------------
(* Text.  A JavaScript string is a sequence of chunks [s, n]: the first n   *)
(* characters of s repeated for ever.  A literal is one chunk with n its    *)
(* length; a run of one character repeated n times is one chunk.  Adjacent  *)
(* runs of the same repeatable character are kept merged, so equal strings  *)
(* are equal values.                                                        *)

RepChars == {"a", "b"}

Lit(s, n) == IF n = 0 THEN <<>> ELSE <<[s |-> s, n |-> n]>>

Rep(c, n) == Lit(c, n)

RECURSIVE TextLen(_)
TextLen(t) == IF t = <<>> THEN 0 ELSE Head(t).n + TextLen(Tail(t))

\* JS string concatenation (+, +=, template literals)
Concat(a, b) ==
    IF a = <<>> THEN b
    ELSE IF b = <<>> THEN a
    ELSE LET x == a[Len(a)]
             y == b[1]
         IN  IF x.s = y.s /\ x.s \in RepChars
             THEN SubSeq(a, 1, Len(a) - 1) \o <<[s |-> x.s, n |-> x.n + y.n]>> \o Tail(b)
             ELSE a \o b

\* String.prototype.slice(0, k) for k >= 0
RECURSIVE SliceTo(_, _)
SliceTo(t, k) ==
    IF t = <<>> \/ k <= 0 THEN <<>>
    ELSE IF Head(t).n <= k THEN <<Head(t)>> \o SliceTo(Tail(t), k - Head(t).n)
    ELSE <<[s |-> Head(t).s, n |-> k]>>

\* String.prototype.startsWith
StartsWith(t, p) == SliceTo(t, TextLen(p)) = p

-----------------------------------------------------------------------------
(* Tool registry and loop detector (src/tools/registry.ts)                  *)

LOOP_THRESHOLD == 3

FINGERPRINT_CHARS == 500

\* Identifiers a backend may ask for; "ghost" is never registered.
ToolNames == {"read_file", "run_code", "ghost"}

NameLength(name) ==
    CASE name = "read_file" -> 9
      [] name = "run_code" -> 8
      [] name = "ghost" -> 5
      [] OTHER -> 0

NameText(name) == Lit(name, NameLength(name))

\* The registrations made at start-up by the tool modules (read_file gives
\* no category, run_code is a coding tool).
StartupTools ==
    [n \in {"read_file", "run_code"} |->
        [name |-> n, category |-> IF n = "read_file" THEN "unset" ELSE "coding"]]

\* What an executor can do with parsed arguments: resolve to a string (the
\* executors are opaque to the core) or reject.
Small == Rep("a", 2)

HugeChars == 320000

Huge == Rep("a", HugeChars)

ExecOutcomes(name) ==
    IF name = "read_file"
    THEN { [kind |-> "ok", text |-> Small], [kind |-> "ok", text |-> Huge] }
    ELSE { [kind |-> "ok", text |-> Small], [kind |-> "raise", text |-> Lit("ENOENT", 6)] }

\* JSON.parse: the argument texts of the model are objects "{...}" or broken.
JsonParses(t) ==
    /\ Len(t) >= 2
    /\ t[1] = [s |-> "{", n |-> 1]
    /\ t[Len(t)] = [s |-> "}", n |-> 1]

\* err.message of the SyntaxError JSON.parse throws
JsonErrorMessage(t) ==
    IF t = <<>> THEN Lit("Unexpected end of JSON input", 28)
    ELSE Lit("Expected property name or '}' in JSON at position 1", 51)

Fingerprint(name, argsJson) ==
    Concat(Concat(NameText(name), Lit(":", 1)), SliceTo(argsJson, FINGERPRINT_CHARS))

\* Array.prototype.slice(-k) for k >= 1
LastK(q, k) == IF Len(q) > k THEN SubSeq(q, Len(q) - k + 1, Len(q)) ELSE q

LoopMessage(name) ==
    Concat(Concat(Concat(Concat(Lit("Loop detected: you've called ", 29), NameText(name)),
                  Lit(" with the same arguments ", 25)),
                  Lit(ToString(LOOP_THRESHOLD), 1)),
           Lit(" times in a row. Try a different approach.", 42))

\* checkLoopDetection answering at the second identical call in a row
CheckLoopDetection_TwoInARow(buf, name, argsJson) ==
    LET fingerprint == Fingerprint(name, argsJson)
        pushed == Append(buf, fingerprint)
        kept == IF Len(pushed) > LOOP_THRESHOLD THEN LastK(pushed, LOOP_THRESHOLD) ELSE pushed
        loop == /\ Len(kept) >= 2
                /\ \A i \in (Len(kept) - 1)..Len(kept) : kept[i] = fingerprint
    IN  [buf |-> IF loop THEN <<>> ELSE kept, loop |-> loop]

\* checkLoopDetection answering at the fourth identical call in a row
CheckLoopDetection_FourInARow(buf, name, argsJson) ==
    LET fingerprint == Fingerprint(name, argsJson)
        pushed == Append(buf, fingerprint)
        kept == IF Len(pushed) > LOOP_THRESHOLD + 1 THEN LastK(pushed, LOOP_THRESHOLD + 1)
                ELSE pushed
        loop == /\ Len(kept) >= LOOP_THRESHOLD + 1
                /\ \A i \in 1..Len(kept) : kept[i] = fingerprint
    IN  [buf |-> IF loop THEN <<>> ELSE kept, loop |-> loop]

\* checkLoopDetection with the length test written > instead of >=
CheckLoopDetection_StrictLength(buf, name, argsJson) ==
    LET fingerprint == Fingerprint(name, argsJson)
        pushed == Append(buf, fingerprint)
        kept == IF Len(pushed) > LOOP_THRESHOLD THEN LastK(pushed, LOOP_THRESHOLD) ELSE pushed
        loop == /\ Len(kept) > LOOP_THRESHOLD
                /\ \A i \in 1..Len(kept) : kept[i] = fingerprint
    IN  [buf |-> IF loop THEN <<>> ELSE kept, loop |-> loop]

\* checkLoopDetection without recentFingerprints = [] on a detection
CheckLoopDetection_NoClear(buf, name, argsJson) ==
    LET fingerprint == Fingerprint(name, argsJson)
        pushed == Append(buf, fingerprint)
        kept == IF Len(pushed) > LOOP_THRESHOLD THEN LastK(pushed, LOOP_THRESHOLD) ELSE pushed
        loop == /\ Len(kept) >= LOOP_THRESHOLD
                /\ \A i \in 1..Len(kept) : kept[i] = fingerprint
    IN  [buf |-> kept, loop |-> loop]

\* checkLoopDetection: the new buffer and whether the corrective message is
\* returned instead of null.
CheckLoopDetection(buf, name, argsJson) ==
    LET fingerprint == Fingerprint(name, argsJson)
        pushed == Append(buf, fingerprint)
        kept == IF Len(pushed) > LOOP_THRESHOLD THEN LastK(pushed, LOOP_THRESHOLD) ELSE pushed
        loop == /\ Len(kept) >= LOOP_THRESHOLD
                /\ \A i \in 1..Len(kept) : kept[i] = fingerprint
    IN  [buf |-> IF loop THEN <<>> ELSE kept, loop |-> loop]

UnknownToolMessage(name) == Concat(Lit("Unknown tool: ", 14), NameText(name))

FailedToParse(msg) == Concat(Lit("Failed to parse tool arguments: ", 32), msg)

\* dispatchToolCall with the loop check moved in front of the registry lookup
DispatchToolCall_CheckBeforeLookup(reg, buf, name, argsJson, out) ==
    LET chk == CheckLoopDetection(buf, name, argsJson)
    IN  IF chk.loop
        THEN [result |-> LoopMessage(name), buf |-> chk.buf, ran |-> FALSE]
        ELSE IF name \notin DOMAIN reg
        THEN [result |-> UnknownToolMessage(name), buf |-> chk.buf, ran |-> FALSE]
        ELSE IF ~JsonParses(argsJson)
        THEN [result |-> FailedToParse(JsonErrorMessage(argsJson)),
              buf |-> chk.buf, ran |-> FALSE]
        ELSE IF out.kind = "raise"
        THEN [result |-> FailedToParse(out.text), buf |-> chk.buf, ran |-> TRUE]
        ELSE [result |-> out.text, buf |-> chk.buf, ran |-> TRUE]

\* dispatchToolCall answering a parse failure before it looks at the verdict
\* of the loop check
DispatchToolCall_ParseBeforeCheck(reg, buf, name, argsJson, out) ==
    IF name \notin DOMAIN reg
    THEN [result |-> UnknownToolMessage(name), buf |-> buf, ran |-> FALSE]
    ELSE LET chk == CheckLoopDetection(buf, name, argsJson)
         IN  IF ~JsonParses(argsJson)
             THEN [result |-> FailedToParse(JsonErrorMessage(argsJson)),
                   buf |-> chk.buf, ran |-> FALSE]
             ELSE IF chk.loop
             THEN [result |-> LoopMessage(name), buf |-> chk.buf, ran |-> FALSE]
             ELSE IF out.kind = "raise"
             THEN [result |-> FailedToParse(out.text), buf |-> chk.buf, ran |-> TRUE]
             ELSE [result |-> out.text, buf |-> chk.buf, ran |-> TRUE]

\* dispatchToolCall emptying the detector's buffer for an unknown name
DispatchToolCall_UnknownClears(reg, buf, name, argsJson, out) ==
    IF name \notin DOMAIN reg
    THEN [result |-> UnknownToolMessage(name), buf |-> <<>>, ran |-> FALSE]
    ELSE LET chk == CheckLoopDetection(buf, name, argsJson)
         IN  IF chk.loop
             THEN [result |-> LoopMessage(name), buf |-> chk.buf, ran |-> FALSE]
             ELSE IF ~JsonParses(argsJson)
             THEN [result |-> FailedToParse(JsonErrorMessage(argsJson)),
                   buf |-> chk.buf, ran |-> FALSE]
             ELSE IF out.kind = "raise"
             THEN [result |-> FailedToParse(out.text), buf |-> chk.buf, ran |-> TRUE]
             ELSE [result |-> out.text, buf |-> chk.buf, ran |-> TRUE]

\* dispatchToolCall whose catch returns err.message alone
DispatchToolCall_BareMessage(reg, buf, name, argsJson, out) ==
    IF name \notin DOMAIN reg
    THEN [result |-> UnknownToolMessage(name), buf |-> buf, ran |-> FALSE]
    ELSE LET chk == CheckLoopDetection(buf, name, argsJson)
         IN  IF chk.loop
             THEN [result |-> LoopMessage(name), buf |-> chk.buf, ran |-> FALSE]
             ELSE IF ~JsonParses(argsJson)
             THEN [result |-> JsonErrorMessage(argsJson), buf |-> chk.buf, ran |-> FALSE]
             ELSE IF out.kind = "raise"
             THEN [result |-> out.text, buf |-> chk.buf, ran |-> TRUE]
             ELSE [result |-> out.text, buf |-> chk.buf, ran |-> TRUE]

\* dispatchToolCall: the string returned, the buffer afterwards and whether the
\* executor was invoked, given what the executor does when invoked.
DispatchToolCall(reg, buf, name, argsJson, out) ==
    IF name \notin DOMAIN reg
    THEN [result |-> UnknownToolMessage(name), buf |-> buf, ran |-> FALSE]
    ELSE LET chk == CheckLoopDetection(buf, name, argsJson)
         IN  IF chk.loop
             THEN [result |-> LoopMessage(name), buf |-> chk.buf, ran |-> FALSE]
             ELSE IF ~JsonParses(argsJson)
             THEN [result |-> FailedToParse(JsonErrorMessage(argsJson)),
                   buf |-> chk.buf, ran |-> FALSE]
             ELSE IF out.kind = "raise"
             THEN [result |-> FailedToParse(out.text), buf |-> chk.buf, ran |-> TRUE]
             ELSE [result |-> out.text, buf |-> chk.buf, ran |-> TRUE]

\* resetLoopDetection
ResetBuffer == <<>>

\* Whether the outcome of the executor matters to a dispatch (it is drawn only
\* when the executor runs).
ExecutorRuns(reg, buf, name, argsJson) ==
    /\ name \in DOMAIN reg
    /\ ~CheckLoopDetection(buf, name, argsJson).loop
    /\ JsonParses(argsJson)

NoOutcome == [kind |-> "none", text |-> <<>>]

OutcomesFor(reg, buf, name, argsJson) ==
    IF ExecutorRuns(reg, buf, name, argsJson) THEN ExecOutcomes(name) ELSE {NoOutcome}

\* Argument texts a backend may send.
Obj(body) == Concat(Concat(Lit("{", 1), body), Lit("}", 1))

ArgsA == Obj(Rep("a", 1))

LongChars == 600

ArgsLong1 == Obj(Rep("a", LongChars))

ArgsLong2 == Obj(Concat(Rep("a", LongChars), Rep("b", 1)))

ArgsBad == Concat(Lit("{", 1), Rep("a", 1))

ArgsEmpty == <<>>

\* The arguments the typed-schema protocol hands to a wrapped executor: an
\* object, here with one property whose serialization is body
ArgsObject(body) == [body |-> body]

\* JSON.stringify(args)
JsonStringify(args) == Obj(args.body)

\* What an executor called through the typed-schema protocol can do
McpExecOutcomes ==
    { [kind |-> "ok", text |-> Small],
      [kind |-> "ok", text |-> Lit("error: no such file", 19)],
      [kind |-> "ok", text |-> Lit("Command rejected: not allowed", 29)],
      [kind |-> "raise", text |-> Lit("ENOENT", 6)] }

\* /^(Unknown|Failed|Error|rejected|denied)/i.test(result) ||
\* result.includes("rejected:"), over the strings of the model
ErrorLike(result) ==
    /\ result # <<>>
    /\ result[1].s \in {"Unknown tool: ", "Failed to parse tool arguments: ",
                        "error: no such file", "Command rejected: not allowed"}

\* The wrapped executor calling the executor before it asks the detector
McpToolCall_ExecuteBeforeCheck(t, buf, args, out) ==
    LET chk == CheckLoopDetection(buf, t.name, JsonStringify(args))
    IN  IF out.kind = "raise"
        THEN [content |-> <<>>, isError |-> FALSE, threw |-> TRUE, buf |-> buf, ran |-> TRUE]
        ELSE IF chk.loop
        THEN [content |-> LoopMessage(t.name), isError |-> TRUE, threw |-> FALSE,
              buf |-> chk.buf, ran |-> TRUE]
        ELSE [content |-> out.text, isError |-> ErrorLike(out.text), threw |-> FALSE,
              buf |-> chk.buf, ran |-> TRUE]

\* The wrapped executor getMcpTools builds for tool t: the text of the
\* result, its error flag, whether the call rejects, the buffer afterwards
\* and whether the executor was invoked.
McpToolCall(t, buf, args, out) ==
    LET chk == CheckLoopDetection(buf, t.name, JsonStringify(args))
    IN  IF chk.loop
        THEN [content |-> LoopMessage(t.name), isError |-> TRUE, threw |-> FALSE,
              buf |-> chk.buf, ran |-> FALSE]
        ELSE IF out.kind = "raise"
        THEN [content |-> <<>>, isError |-> FALSE, threw |-> TRUE, buf |-> chk.buf, ran |-> TRUE]
        ELSE [content |-> out.text, isError |-> ErrorLike(out.text), threw |-> FALSE,
              buf |-> chk.buf, ran |-> TRUE]

\* The outcome of the executor is drawn only when the wrapper reaches it
McpOutcomesFor(t, buf, args) ==
    IF CheckLoopDetection(buf, t.name, JsonStringify(args)).loop THEN {NoOutcome}
    ELSE McpExecOutcomes


-----------------------------------------------------------------------------
(* Messages, token estimate and compaction (providers/compaction.ts,        *)
(* providers/context-limits.ts)                                             *)

NoId == <<>>

\* A ChatCompletionMessageParam.  ckind tells what msg.content is: a string
\* (content), null, or an array of parts (parts).
Msg_NoToolCallId(role, ckind, content, parts, calls, id) ==
    [role |-> role, ckind |-> ckind, content |-> content, parts |-> parts,
     tool_calls |-> calls, tool_call_id |-> NoId]

Msg(role, ckind, content, parts, calls, id) ==
    [role |-> role, ckind |-> ckind, content |-> content, parts |-> parts,
     tool_calls |-> calls, tool_call_id |-> id]

StringMsg(role, content) == Msg(role, "string", content, <<>>, <<>>, NoId)

TextPart(text) == [type |-> "text", text |-> text]

ImagePart == [type |-> "image_url", text |-> <<>>]

RECURSIVE PartsChars(_)
PartsChars(parts) ==
    IF parts = <<>> THEN 0
    ELSE (IF Head(parts).type = "text" THEN TextLen(Head(parts).text) ELSE 0)
         + PartsChars(Tail(parts))

RECURSIVE CallsChars(_)
CallsChars(calls) ==
    IF calls = <<>> THEN 0
    ELSE NameLength(Head(calls).name) + TextLen(Head(calls).arguments)
         + CallsChars(Tail(calls))

\* The count of one message without its tool calls
MsgChars_NoToolCalls(msg) ==
    CASE msg.ckind = "string" -> TextLen(msg.content)
      [] msg.ckind = "parts" -> PartsChars(msg.parts)
      [] OTHER -> 0

MsgChars(msg) ==
    (CASE msg.ckind = "string" -> TextLen(msg.content)
       [] msg.ckind = "parts" -> PartsChars(msg.parts)
       [] OTHER -> 0)
    + CallsChars(msg.tool_calls)

RECURSIVE Chars(_)
Chars(msgs) == IF msgs = <<>> THEN 0 ELSE MsgChars(Head(msgs)) + Chars(Tail(msgs))

\* estimateTokens: Math.ceil(chars / 3.5)
EstimateTokens(msgs) == (2 * Chars(msgs) + 6) \div 7

\* limits(contextWindow).compactionThreshold: Math.floor(contextWindow * 0.7)
Limits(contextWindow) ==
    [contextWindow |-> contextWindow, compactionThreshold |-> (contextWindow * 7) \div 10]

\* getModelLimits, for the models the turn loop is run with
\* the object literal MODEL_LIMITS: its own properties
MODEL_LIMITS ==
    [m \in {"claude-opus-4-6", "claude-sonnet-4-6", "claude-sonnet-4-5-20250929",
            "claude-haiku-4-5-20251001", "o3", "o3-mini", "o3-pro", "o3-deep-research",
            "o4-mini", "o4-mini-deep-research"} |-> Limits(200000)]
    @@ [m \in {"gpt-5.2", "gpt-5.2-chat-latest", "gpt-5.2-pro", "gpt-4o", "gpt-4o-mini"}
            |-> Limits(128000)]
    @@ [m \in {"GPT-5.3-Codex", "GPT-5.2-Codex", "GPT-5.1-Codex-Mini"} |-> Limits(192000)]
    @@ [m \in {"gpt-4.1", "gpt-4.1-mini", "gpt-4.1-nano", "MiniMax-M2.5",
               "MiniMax-M2.5-highspeed"} |-> Limits(1000000)]

DEFAULT_LIMITS == Limits(128000)

\* The properties a plain object inherits from Object.prototype.  Each is a
\* function, or for __proto__ the prototype itself: a truthy value that has
\* no property contextWindow and no property compactionThreshold.
ObjectPrototypeKeys ==
    {"constructor", "toString", "toLocaleString", "valueOf", "hasOwnProperty",
     "isPrototypeOf", "propertyIsEnumerable", "__proto__", "__defineGetter__",
     "__defineSetter__", "__lookupGetter__", "__lookupSetter__"}

InheritedProperty == [inherited |-> "Object.prototype"]

\* MODEL_LIMITS[model] || DEFAULT_LIMITS
GetModelLimits(model) ==
    IF model \in DOMAIN MODEL_LIMITS THEN MODEL_LIMITS[model]
    ELSE IF model \in ObjectPrototypeKeys THEN InheritedProperty
    ELSE DEFAULT_LIMITS

\* needsCompaction answering yes whatever the estimate
NeedsCompaction_EveryTurn(model, msgs) == TRUE

\* needsCompaction comparing with the context window, not with the threshold
NeedsCompaction_AtContextWindow(model, msgs) ==
    EstimateTokens(msgs) > GetModelLimits(model).contextWindow

\* a comparison with undefined, the value of a missing property, is false
NeedsCompaction(model, msgs) ==
    LET l == GetModelLimits(model)
    IN  /\ "compactionThreshold" \in DOMAIN l
        /\ EstimateTokens(msgs) > l.compactionThreshold

Min(a, b) == IF a < b THEN a ELSE b

Max(a, b) == IF a > b THEN a ELSE b

\* Array.prototype.slice(start, end): negative indexes count from the end
\* (-0 is 0); indexes are 0-based, end exclusive.
JsSlice(q, start, end) ==
    LET from == IF start < 0 THEN Max(Len(q) + start, 0) ELSE Min(start, Len(q))
        to == IF end < 0 THEN Max(Len(q) + end, 0) ELSE Min(end, Len(q))
    IN  IF from >= to THEN <<>> ELSE SubSeq(q, from + 1, to)

\* Array.prototype.slice(start)
JsSliceFrom(q, start) == JsSlice(q, start, Len(q))

CheckpointHeader ==
    Lit("[CONTEXT CHECKPOINT - this summarizes our earlier conversation]\n\n", 65)

CompactionFailedText == Lit("[compaction failed]", 19)

\* What the summarizing backend call can do: answer with text, answer with no
\* content, or reject.
SummaryText == Lit("## Goal ...", 11)

CompactionOutcomes ==
    { [kind |-> "ok", content |-> SummaryText],
      [kind |-> "ok", content |-> <<>>],
      [kind |-> "throw", content |-> <<>>] }

NoCompactionCall == [kind |-> "none", content |-> <<>>]

\* Whether compactMessages gets as far as its backend call.
CompactionCalls(msgs, keepRecentTurns) ==
    /\ ~(Len(msgs) < keepRecentTurns + 4)
    /\ ~(Len(JsSlice(msgs, 2, -keepRecentTurns)) < 2)

\* The outcome of the summarizing call is drawn only when the call is made.
CompactionOutcomesFor(msgs, keepRecentTurns) ==
    IF CompactionCalls(msgs, keepRecentTurns) THEN CompactionOutcomes ELSE {NoCompactionCall}

\* compactMessages keeping only the system message in front of the checkpoint
CompactMessages_KeepsSystemOnly(msgs, keepRecentTurns, out) ==
    IF Len(msgs) < keepRecentTurns + 4 THEN msgs
    ELSE LET prefix == JsSlice(msgs, 0, 1)
             middle == JsSlice(msgs, 2, -keepRecentTurns)
             recent == JsSliceFrom(msgs, -keepRecentTurns)
         IN  IF Len(middle) < 2 THEN msgs
             ELSE IF out.kind = "throw" THEN msgs
             ELSE LET summary == IF out.content # <<>> THEN out.content
                                 ELSE CompactionFailedText
                  IN  prefix
                      \o <<StringMsg("user", Concat(CheckpointHeader, summary))>>
                      \o recent

\* compactMessages summarizing a middle of one message as well
CompactMessages_OneMessageMiddle(msgs, keepRecentTurns, out) ==
    IF Len(msgs) < keepRecentTurns + 3 THEN msgs
    ELSE LET prefix == JsSlice(msgs, 0, 2)
             middle == JsSlice(msgs, 2, -keepRecentTurns)
             recent == JsSliceFrom(msgs, -keepRecentTurns)
         IN  IF Len(middle) < 1 THEN msgs
             ELSE IF out.kind = "throw" THEN msgs
             ELSE LET summary == IF out.content # <<>> THEN out.content
                                 ELSE CompactionFailedText
                  IN  prefix
                      \o <<StringMsg("user", Concat(CheckpointHeader, summary))>>
                      \o recent

\* compactMessages keeping one message more than keepRecentTurns at the end
CompactMessages_KeepsOneMore(msgs, keepRecentTurns, out) ==
    IF Len(msgs) < keepRecentTurns + 4 THEN msgs
    ELSE LET prefix == JsSlice(msgs, 0, 2)
             middle == JsSlice(msgs, 2, -keepRecentTurns)
             recent == JsSliceFrom(msgs, -(keepRecentTurns + 1))
         IN  IF Len(middle) < 2 THEN msgs
             ELSE IF out.kind = "throw" THEN msgs
             ELSE LET summary == IF out.content # <<>> THEN out.content
                                 ELSE CompactionFailedText
                  IN  prefix
                      \o <<StringMsg("user", Concat(CheckpointHeader, summary))>>
                      \o recent

\* compactMessages whose catch returns what is left without the middle
CompactMessages_CatchDropsMiddle(msgs, keepRecentTurns, out) ==
    IF Len(msgs) < keepRecentTurns + 4 THEN msgs
    ELSE LET prefix == JsSlice(msgs, 0, 2)
             middle == JsSlice(msgs, 2, -keepRecentTurns)
             recent == JsSliceFrom(msgs, -keepRecentTurns)
         IN  IF Len(middle) < 2 THEN msgs
             ELSE IF out.kind = "throw" THEN prefix \o recent
             ELSE LET summary == IF out.content # <<>> THEN out.content
                                 ELSE CompactionFailedText
                  IN  prefix
                      \o <<StringMsg("user", Concat(CheckpointHeader, summary))>>
                      \o recent

\* compactMessages: the list returned, given what the summarizing call does
\* when it is made.
CompactMessages(msgs, keepRecentTurns, out) ==
    IF Len(msgs) < keepRecentTurns + 4 THEN msgs
    ELSE LET prefix == JsSlice(msgs, 0, 2)
             middle == JsSlice(msgs, 2, -keepRecentTurns)
             recent == JsSliceFrom(msgs, -keepRecentTurns)
         IN  IF Len(middle) < 2 THEN msgs
             ELSE IF out.kind = "throw" THEN msgs
             ELSE LET summary == IF out.content # <<>> THEN out.content
                                 ELSE CompactionFailedText
                  IN  prefix
                      \o <<StringMsg("user", Concat(CheckpointHeader, summary))>>
                      \o recent

\* const PROMPT_CACHE_MS = 5 * 60 * 1000, in minutes
PROMPT_CACHE_MS == 5

\* Date.now() when the process starts, in minutes: far more than
\* PROMPT_CACHE_MS after the zero that lastPromptLoad starts from
StartClock == 10

Callers == {"telegram", "scheduler"}

\* A getSystemPrompt call: where it is, the Date.now() it read, how many
\* invalidations had returned when it started, whether it was the first call
\* to start since the last of them, whether it went to load, the prompt it
\* returned (named by the number of invalidations before its load began),
\* and how many calls the caller has made.
NoLoad ==
    [pc |-> "idle", now |-> 0, started |-> 0, next |-> FALSE, fresh |-> FALSE,
     result |-> 0, calls |-> 0]

\* shared.ts as the module is loaded, and no getSystemPrompt call under way
PromptIdle ==
    /\ lastPromptLoad = 0
    /\ cachedFrom = 0
    /\ clock = StartClock
    /\ invalidations = 0
    /\ loads = [c \in Callers |-> NoLoad]

\* The first Date.now() the other modules read, in ms since the process started
StartNow == 1000

\* no checkRateLimit call yet: a result for nobody
NoCheck == [userId |-> 0, at |-> 0, allowed |-> TRUE, retryAfterMs |-> 0]

\* let conversations = null, and conversations.json not written yet
NotLoaded == [loaded |-> FALSE, store |-> <<>>]

NoFile == [exists |-> FALSE, store |-> <<>>]

\* no processCheckResult call is under way
NotChecking == [name |-> "", ok |-> TRUE, at |-> 0, send |-> "none"]

\* no executeMemoryTool call made yet by a turn sequence
NoMemoryCall == [pc |-> "idle", category |-> "", action |-> "", result |-> "none"]

\* rate-limit.ts, conversation.ts, scheduler.ts, health.ts and memory/tools.ts
\* as their modules are loaded, before any of their operations has run
SideIdle ==
    /\ dateNow = StartNow
    /\ events = <<>>
    /\ toolCallAccumulator = <<>>
    /\ userTimestamps = <<>>
    /\ conversations = NotLoaded
    /\ conversationsFile = NoFile
    /\ schedules = <<>>
    /\ executing = <<>>
    /\ alertState = <<>>
    /\ lastReplaceTime = <<>>
    /\ memoryCalls = [c \in Callers |-> NoMemoryCall]
    /\ rateResult = NoCheck
    /\ checking = NotChecking

\* client.chat.completions.create({model, messages, tools, stream: true})
PrimaryRequest(msgs) ==
    [kind |-> "primary", messages |-> Len(msgs), tools |-> TRUE, stream |-> TRUE]

\* The request compactMessages sends: a system and a user message, no tools
CompactionRequest ==
    [kind |-> "compaction", messages |-> 2, tools |-> FALSE, stream |-> FALSE]

\* The ceiling request sent with the tool definitions of the primary call
SummaryRequest_WithTools(msgs) ==
    [kind |-> "summary", messages |-> Len(msgs) + 1, tools |-> TRUE, stream |-> TRUE]

\* The ceiling request: the running list and one user message, no tools
SummaryRequest(msgs) ==
    [kind |-> "summary", messages |-> Len(msgs) + 1, tools |-> FALSE, stream |-> TRUE]

\* No turn sequence is running.
ChatIdle ==
    /\ cachedSystemPrompt = FALSE
    /\ pc = "idle"
    /\ messages = <<>>
    /\ turn = 0
    /\ toolCallsArray = <<>>
    /\ nextCall = 0
    /\ outcome = [kind |-> "none", text |-> <<>>]
    /\ responses = <<>>
    /\ compaction = "none"
    /\ backendCalls = [compaction |-> 0, summary |-> 0]
    /\ keep = 4
    /\ requests = <<>>
    /\ PromptIdle
    /\ SideIdle

-----------------------------------------------------------------------------
(* Dispatch specification: any sequence of dispatchToolCall and             *)
(* resetLoopDetection calls against the start-up registry.                  *)

MaxDispatch == 4

DispatchArgs == {ArgsA, ArgsLong1, ArgsLong2, ArgsBad}

DispatchInputs ==
    ({"read_file"} \X DispatchArgs)
    \cup ({"ghost"} \X {ArgsA, ArgsBad})
    \cup ({"run_code"} \X {ArgsA, ArgsEmpty})

InitDispatch ==
    /\ tools = StartupTools
    /\ recentFingerprints = <<>>
    /\ executed = <<>>
    /\ dlog = <<>>
    /\ ChatIdle

Dispatch ==
    /\ Len(dlog) < MaxDispatch
    /\ \E in \in DispatchInputs :
         \E out \in OutcomesFor(tools, recentFingerprints, in[1], in[2]) :
            LET r == DispatchToolCall(tools, recentFingerprints, in[1], in[2], out)
            IN  /\ recentFingerprints' = r.buf
                /\ executed' = IF r.ran THEN Append(executed, <<in[1], in[2]>>) ELSE executed
                /\ dlog' = Append(dlog, [op |-> "dispatch", name |-> in[1], args |-> in[2],
                                         before |-> recentFingerprints,
                                         result |-> r.result, ran |-> r.ran])
    /\ UNCHANGED tools
    /\ UNCHANGED chatVars

ResetLoopDetection ==
    /\ Len(dlog) < MaxDispatch
    /\ recentFingerprints' = ResetBuffer
    /\ dlog' = Append(dlog, [op |-> "reset", name |-> "", args |-> <<>>,
                             before |-> recentFingerprints,
                             result |-> <<>>, ran |-> FALSE])
    /\ UNCHANGED <<tools, executed>>
    /\ UNCHANGED chatVars

NextDispatch == Dispatch \/ ResetLoopDetection

SpecDispatch == InitDispatch /\ [][NextDispatch]_vars


-----------------------------------------------------------------------------
(* The turn loop (src/providers/openai.ts, createOpenAiProvider.chat)       *)

MaxToolTurns == 3

Model == "gpt-4o"

OpenTag == [s |-> "<think>", n |-> 7]

CloseTag == [s |-> "</think>", n |-> 8]

\* The text after the first "</think>" of t
RECURSIVE AfterClose(_)
AfterClose(t) ==
    IF t = <<>> THEN <<>>
    ELSE IF Head(t) = CloseTag THEN Tail(t)
    ELSE AfterClose(Tail(t))

HasClose(t) == \E i \in 1..Len(t) : t[i] = CloseTag

\* text.replace(/<think>[\s\S]*?<\/think>/g, "")
RECURSIVE StripClosed(_)
StripClosed(t) ==
    IF t = <<>> THEN <<>>
    ELSE IF Head(t) = OpenTag /\ HasClose(Tail(t)) THEN StripClosed(AfterClose(Tail(t)))
    ELSE Concat(<<Head(t)>>, StripClosed(Tail(t)))

\* text.replace(/<think>[\s\S]*$/g, "")
RECURSIVE StripOpen(_)
StripOpen(t) ==
    IF t = <<>> THEN <<>>
    ELSE IF Head(t) = OpenTag THEN <<>>
    ELSE Concat(<<Head(t)>>, StripOpen(Tail(t)))

\* stripThinkTags leaving the text as it is
StripThinkTags_Identity(t) == t

StripThinkTags(t) == StripOpen(StripClosed(t))

\* One event of the streamed response: chunk.choices[0] may be missing; its
\* delta carries a piece of content and pieces of tool calls.
Chunk(content, deltas) == [choice |-> TRUE, content |-> content, tool_calls |-> deltas]

NoChoice == [choice |-> FALSE, content |-> <<>>, tool_calls |-> <<>>]

Delta(index, id, name, arguments) ==
    [index |-> index, id |-> id, name |-> name, arguments |-> arguments]

\* contentAccumulator after the whole stream
RECURSIVE AccumulateContent(_)
AccumulateContent(stream) ==
    IF stream = <<>> THEN <<>>
    ELSE Concat(IF Head(stream).choice THEN Head(stream).content ELSE <<>>,
                AccumulateContent(Tail(stream)))

AccumulateDelta_LaterIdWins(acc, tc) ==
    IF \E i \in 1..Len(acc) : acc[i].index = tc.index
    THEN [i \in 1..Len(acc) |->
            IF acc[i].index = tc.index
            THEN [acc[i] EXCEPT !.id = IF tc.id # NoId THEN tc.id ELSE acc[i].id,
                                !.arguments = Concat(acc[i].arguments, tc.arguments)]
            ELSE acc[i]]
    ELSE Append(acc, tc)

\* toolCallAccumulator after one more tool-call delta; the Map keeps its
\* entries in the order their indexes were first seen.
AccumulateDelta(acc, tc) ==
    IF \E i \in 1..Len(acc) : acc[i].index = tc.index
    THEN [i \in 1..Len(acc) |->
            IF acc[i].index = tc.index /\ tc.arguments # <<>>
            THEN [acc[i] EXCEPT !.arguments = Concat(acc[i].arguments, tc.arguments)]
            ELSE acc[i]]
    ELSE Append(acc, tc)

RECURSIVE AccumulateDeltas(_, _)
AccumulateDeltas(acc, deltas) ==
    IF deltas = <<>> THEN acc
    ELSE AccumulateDeltas(AccumulateDelta(acc, Head(deltas)), Tail(deltas))

RECURSIVE AccumulateCalls(_, _)
AccumulateCalls(acc, stream) ==
    IF stream = <<>> THEN acc
    ELSE AccumulateCalls(
            IF Head(stream).choice THEN AccumulateDeltas(acc, Head(stream).tool_calls) ELSE acc,
            Tail(stream))

\* toolCallsArray: Array.from(toolCallAccumulator.values()).map(...)
ToolCallsArray(stream) ==
    LET acc == AccumulateCalls(<<>>, stream)
    IN  [i \in 1..Len(acc) |->
            [id |-> acc[i].id, name |-> acc[i].name, arguments |-> acc[i].arguments]]

HasContent(stream) == \E i \in 1..Len(stream) : stream[i].choice /\ stream[i].content # <<>>

CallId(t, i) == <<"call", t, i>>

\* The responses the backend may stream in turn t.
StreamDone == <<Chunk(Lit("do", 2), <<>>), NoChoice, Chunk(Lit("ne", 2), <<>>)>>

StreamThink ==
    <<Chunk(<<OpenTag>>, <<>>), Chunk(Lit("plan", 4), <<>>), Chunk(<<CloseTag>>, <<>>),
      Chunk(Lit("done", 4), <<>>)>>

StreamOne(t) ==
    <<Chunk(<<>>, <<Delta(0, CallId(t, 0), "read_file", Lit("{", 1))>>),
      Chunk(<<>>, <<Delta(0, NoId, "", Concat(Rep("a", 1), Lit("}", 1)))>>)>>

StreamTwo(t) ==
    <<Chunk(Lit("working", 7),
            <<Delta(0, CallId(t, 0), "read_file", Lit("{", 1)),
              Delta(1, CallId(t, 1), "run_code", Concat(Lit("{", 1), Rep("a", 1)))>>),
      Chunk(<<>>, <<Delta(1, NoId, "", Lit("}", 1)),
                    Delta(0, NoId, "", Concat(Rep("a", 1), Lit("}", 1)))>>)>>

StreamOdd(t) ==
    <<Chunk(<<>>, <<Delta(0, CallId(t, 0), "ghost", ArgsA),
                    Delta(1, CallId(t, 1), "read_file", ArgsBad)>>)>>

Streams(t) == {StreamDone, StreamThink, StreamOne(t), StreamTwo(t), StreamOdd(t)}

\* How a primary call can go: the stream is consumed, create() rejects, the
\* stream breaks while it is read, or the progress callback throws.
PrimaryOutcomes(t) ==
    [kind : {"stream"}, stream : Streams(t)]
    \cup [kind : {"reject", "break"}, stream : {<<>>}]
    \cup [kind : {"callback"}, stream : {s \in Streams(t) : HasContent(s)}]

SystemPrompt == Lit("You are Chris's assistant.", 26)

UserSmall == Lit("hi", 2)

UserHuge == Rep("b", HugeChars)

\* userContent: the text part, and the image part when there is an attachment
UserContents ==
    { <<TextPart(UserSmall)>>, <<TextPart(UserSmall), ImagePart>>, <<TextPart(UserHuge)>> }

ErrorText == Lit("Sorry, I hit an error processing that. Try again in a moment.", 61)

LimitText ==
    Lit("I reached the processing limit. Please ask me to continue where I left off.", 75)

SummaryOutcomes ==
    { [kind |-> "ok", content |-> Lit("So far ...", 10)],
      [kind |-> "ok", content |-> <<>>],
      [kind |-> "throw", content |-> <<>>] }

\* return summary || fallback, with the empty summary returned as it is
SummaryResult_NoFallback(out) == IF out.kind = "ok" THEN out.content ELSE LimitText

\* What the ceiling path returns: the accumulated summary, or the fixed string
\* when the summary is empty or the request or its stream failed
SummaryResult(out) ==
    IF out.kind = "ok" /\ out.content # <<>> THEN out.content ELSE LimitText

\* Buffers an earlier turn sequence can have left behind (one that ended in
\* the transport-error return, which does not reset the detector).
LeftoverBuffers == {<<>>, <<Fingerprint("read_file", ArgsA), Fingerprint("read_file", ArgsA)>>}

Init ==
    /\ tools = StartupTools
    /\ recentFingerprints \in LeftoverBuffers
    /\ executed = <<>>
    /\ dlog = <<>>
    /\ cachedSystemPrompt \in BOOLEAN
    /\ pc = "idle"
    /\ messages = <<>>
    /\ turn = 0
    /\ toolCallsArray = <<>>
    /\ nextCall = 0
    /\ outcome = [kind |-> "none", text |-> <<>>]
    /\ responses = <<>>
    /\ compaction = "none"
    /\ backendCalls = [compaction |-> 0, summary |-> 0]
    /\ keep = 4
    /\ requests = <<>>
    /\ PromptIdle
    /\ SideIdle

\* the loop test letting two turns more through
InLoop_TwoTurnsMore(t) == t <= MaxToolTurns + 1

\* for (let turn = 0; turn < config.maxToolTurns; turn++): the loop test
InLoop_OneTurnMore(t) == t <= MaxToolTurns

InLoop(t) == t < MaxToolTurns

\* The catch at the loop boundary throwing the error on to the caller
TransportErrorResult_Rethrows(message) == [kind |-> "EXCEPTION", text |-> message]

\* The catch at the loop boundary returning error.message
TransportErrorResult_LeaksMessage(message) == [kind |-> "ERROR", text |-> message]

\* The catch at the loop boundary: the error is logged, one fixed string returned
TransportErrorResult(message) == [kind |-> "ERROR", text |-> ErrorText]

\* error.message of what a failed primary call throws
ErrorMessage(kind) ==
    CASE kind = "reject" -> Lit("401 Incorrect API key provided", 30)
      [] kind = "break" -> Lit("Premature close", 15)
      [] OTHER -> Lit("onChunk failed", 14)

\* chat() up to the loop: the access token, the system prompt, the first two
\* messages.  Both awaits are outside the try block.
StartChat ==
    /\ pc = "idle"
    /\ \E tokenOk \in BOOLEAN, expired \in BOOLEAN, loadOk \in BOOLEAN, user \in UserContents :
         IF ~tokenOk \/ ((~cachedSystemPrompt \/ expired) /\ ~loadOk)
         THEN /\ pc' = "threw"
              /\ outcome' = [kind |-> "EXCEPTION", text |-> <<>>]
              /\ UNCHANGED <<messages, cachedSystemPrompt>>
         ELSE /\ cachedSystemPrompt' = TRUE
              /\ messages' = <<StringMsg("system", SystemPrompt),
                               Msg("user", "parts", <<>>, user, <<>>, NoId)>>
              /\ pc' = "turn"
              /\ UNCHANGED outcome
    /\ UNCHANGED <<turn, toolCallsArray, nextCall, responses, compaction, backendCalls, keep,
                   requests, promptVars, sideVars>>
    /\ UNCHANGED regVars

\* Top of the loop body when the estimate is above the threshold:
\* messages = await compactMessages(...)
Compact ==
    /\ pc = "turn"
    /\ InLoop(turn)
    /\ NeedsCompaction(Model, messages)
    /\ \E out \in CompactionOutcomesFor(messages, keep) :
         /\ messages' = CompactMessages(messages, keep, out)
         /\ compaction' = IF ~CompactionCalls(messages, keep) THEN "noop"
                          ELSE IF out.kind = "throw" THEN "failed" ELSE "done"
         /\ backendCalls' = IF CompactionCalls(messages, keep)
                            THEN [backendCalls EXCEPT !.compaction = @ + 1]
                            ELSE backendCalls
         /\ requests' = IF CompactionCalls(messages, keep)
                        THEN Append(requests, [req |-> CompactionRequest, reply |-> out])
                        ELSE requests
    /\ pc' = "call"
    /\ UNCHANGED <<cachedSystemPrompt, turn, toolCallsArray, nextCall, outcome, responses, keep,
                   promptVars, sideVars>>
    /\ UNCHANGED regVars

\* Top of the loop body when the estimate is at or below the threshold
NoCompact ==
    /\ pc = "turn"
    /\ InLoop(turn)
    /\ ~NeedsCompaction(Model, messages)
    /\ compaction' = "none"
    /\ pc' = "call"
    /\ UNCHANGED <<cachedSystemPrompt, messages, turn, toolCallsArray, nextCall, outcome,
                   responses, backendCalls, keep, requests, promptVars, sideVars>>
    /\ UNCHANGED regVars

\* invalidatePromptCache without the call of resetLoopDetection()
InvalidatePromptCache_NoReset ==
    /\ cachedSystemPrompt' = FALSE
    /\ UNCHANGED recentFingerprints

\* invalidatePromptCache: cachedSystemPrompt = null; resetLoopDetection()
InvalidatePromptCache ==
    /\ cachedSystemPrompt' = FALSE
    /\ recentFingerprints' = ResetBuffer

\* The primary backend call of a turn and the reading of its stream, up to
\* the assistant message or the return.
PrimaryCall ==
    /\ pc = "call"
    /\ \E r \in PrimaryOutcomes(turn) :
         LET content == AccumulateContent(r.stream)
             calls == ToolCallsArray(r.stream)
         IN  /\ responses' = Append(responses,
                    [kind |-> r.kind, content |-> content, calls |-> calls])
             /\ requests' = Append(requests,
                    [req |-> PrimaryRequest(messages),
                     reply |-> [kind |-> r.kind, content |-> content]])
             /\ IF r.kind # "stream"
                THEN /\ outcome' = TransportErrorResult(ErrorMessage(r.kind))
                     /\ pc' = "returned"
                     /\ UNCHANGED <<messages, toolCallsArray, nextCall, cachedSystemPrompt,
                                    recentFingerprints>>
                ELSE IF Len(calls) > 0
                THEN /\ messages' = Append(messages,
                            Msg("assistant", IF content # <<>> THEN "string" ELSE "null",
                                content, <<>>, calls, NoId))
                     /\ toolCallsArray' = calls
                     /\ nextCall' = 1
                     /\ pc' = "tools"
                     /\ UNCHANGED <<outcome, cachedSystemPrompt, recentFingerprints>>
                ELSE /\ InvalidatePromptCache
                     /\ outcome' = [kind |-> "DONE", text |-> StripThinkTags(content)]
                     /\ pc' = "returned"
                     /\ UNCHANGED <<messages, toolCallsArray, nextCall>>
    /\ UNCHANGED <<turn, compaction, backendCalls, keep, promptVars, sideVars>>
    /\ UNCHANGED <<tools, executed, dlog>>

\* One iteration of for (const tc of toolCallsArray): dispatch, push the tool
\* message; after the last one, continue with the next turn.
DispatchNext ==
    /\ pc = "tools"
    /\ LET tc == toolCallsArray[nextCall]
       IN  \E out \in OutcomesFor(tools, recentFingerprints, tc.name, tc.arguments) :
             LET r == DispatchToolCall(tools, recentFingerprints, tc.name, tc.arguments, out)
             IN  /\ recentFingerprints' = r.buf
                 /\ executed' = IF r.ran THEN Append(executed, <<tc.name, tc.arguments>>)
                                ELSE executed
                 /\ dlog' = Append(dlog, [op |-> "dispatch", name |-> tc.name,
                                          args |-> tc.arguments,
                                          before |-> recentFingerprints,
                                          result |-> r.result, ran |-> r.ran])
                 /\ messages' = Append(messages,
                                       Msg("tool", "string", r.result, <<>>, <<>>, tc.id))
    /\ IF nextCall = Len(toolCallsArray)
       THEN /\ turn' = turn + 1
            /\ toolCallsArray' = <<>>
            /\ nextCall' = 0
            /\ pc' = "turn"
       ELSE /\ nextCall' = nextCall + 1
            /\ UNCHANGED <<turn, toolCallsArray, pc>>
    /\ UNCHANGED <<tools, cachedSystemPrompt, outcome, responses, compaction, backendCalls, keep,
                   requests, promptVars, sideVars>>

\* The loop ran out of turns: one request for a summary, without tools.
Summarize ==
    /\ pc = "turn"
    /\ ~InLoop(turn)
    /\ \E out \in SummaryOutcomes :
         /\ outcome' = [kind |-> "CEILING", text |-> SummaryResult(out)]
         /\ requests' = Append(requests, [req |-> SummaryRequest(messages), reply |-> out])
    /\ backendCalls' = [backendCalls EXCEPT !.summary = @ + 1]
    /\ InvalidatePromptCache
    /\ pc' = "returned"
    /\ UNCHANGED <<messages, turn, toolCallsArray, nextCall, responses, compaction, keep,
                   promptVars, sideVars>>
    /\ UNCHANGED <<tools, executed, dlog>>

Next == StartChat \/ Compact \/ NoCompact \/ PrimaryCall \/ DispatchNext \/ Summarize

Spec == Init /\ [][Next]_vars

-----------------------------------------------------------------------------
(* Claims about dispatchToolCall and the loop detector (SpecDispatch)       *)

IsDispatch(i) == i \in 1..Len(dlog) /\ dlog[i].op = "dispatch"

\* Two logged dispatches have the same identifier and the same first 500
\* characters of argument text.
SameCall(i, j) ==
    /\ IsDispatch(i) /\ IsDispatch(j)
    /\ dlog[i].name = dlog[j].name
    /\ SliceTo(dlog[i].args, 500) = SliceTo(dlog[j].args, 500)

LoopText(name) ==
    <<[s |-> "Loop detected: you've called ", n |-> 29], [s |-> name, n |-> NameLength(name)],
      [s |-> " with the same arguments ", n |-> 25], [s |-> "3", n |-> 1],
      [s |-> " times in a row. Try a different approach.", n |-> 42]>>

\* The dispatch went down the normal path: it was not answered by the
\* detector, and the executor was invoked exactly when the arguments parse.
ExecutedNormally(i) ==
    /\ dlog[i].result # LoopText(dlog[i].name)
    /\ dlog[i].ran <=> JsonParses(dlog[i].args)

\* C1: starting from an empty detector buffer, of three consecutive dispatches
\* of a registered tool with the same identifier and the same first 500
\* characters of arguments the first two are executed and the third returns
\* the 'Loop detected' message without the executor being invoked; a fourth
\* dispatch with different arguments is executed normally.
C1_ThirdIdenticalCallIsBlocked ==
    \A i \in 1..Len(dlog) :
        ( /\ IsDispatch(i) /\ dlog[i].before = <<>>
          /\ dlog[i].name \in {"read_file", "run_code"}
          /\ SameCall(i, i + 1) /\ SameCall(i, i + 2) )
        => /\ ExecutedNormally(i) /\ ExecutedNormally(i + 1)
           /\ dlog[i + 2].result = LoopText(dlog[i].name)
           /\ ~dlog[i + 2].ran
           /\ ( /\ IsDispatch(i + 3)
                /\ dlog[i + 3].name \in {"read_file", "run_code"}
                /\ dlog[i + 3].args # dlog[i + 2].args )
              => ExecutedNormally(i + 3)

C1_Witness ==
    /\ Len(dlog) = 4
    /\ dlog[1].before = <<>>
    /\ SameCall(1, 2) /\ SameCall(1, 3) /\ dlog[1].args # dlog[3].args
    /\ dlog[1].ran /\ dlog[2].ran /\ ~dlog[3].ran
    /\ dlog[3].result = LoopText("read_file")
    /\ IsDispatch(4) /\ dlog[4].name = "read_file" /\ dlog[4].args = ArgsA /\ dlog[4].ran
    /\ Len(executed) = 3

\* C8: a dispatch to an identifier that is not registered returns exactly
\* "Unknown tool: <identifier>" whatever the arguments and the detector
\* buffer, and no executor is invoked.
C8_UnknownToolAnswer ==
    \A i \in 1..Len(dlog) :
        (IsDispatch(i) /\ dlog[i].name = "ghost")
        => /\ dlog[i].result = <<[s |-> "Unknown tool: ", n |-> 14], [s |-> "ghost", n |-> 5]>>
           /\ ~dlog[i].ran
           /\ \A e \in 1..Len(executed) : executed[e][1] # "ghost"

C8_Witness ==
    /\ Len(dlog) = 3
    /\ \A i \in 1..3 : IsDispatch(i) /\ dlog[i].name = "ghost" /\ dlog[i].args = ArgsBad
    /\ dlog[3].result = UnknownToolMessage("ghost")
    /\ executed = <<>>

FailedPrefix == SliceTo(Lit("Failed to parse tool arguments: ", 32), 31)

\* The two calls before dispatch i had the fingerprint of dispatch i, so that
\* dispatch i is the third identical call in a row.
ThirdInARow(i) ==
    LET b == dlog[i].before
        fp == <<[s |-> dlog[i].name, n |-> NameLength(dlog[i].name)], [s |-> ":", n |-> 1]>>
                 \o SliceTo(dlog[i].args, 500)
    IN  Len(b) >= 2 /\ b[Len(b)] = fp /\ b[Len(b) - 1] = fp

UnparseableCall(i) ==
    /\ IsDispatch(i)
    /\ dlog[i].name \in {"read_file", "run_code"}
    /\ ~JsonParses(dlog[i].args)

\* C9 as stated: every dispatch of a registered tool with unparseable
\* arguments returns a string starting "Failed to parse tool arguments:" and
\* does not invoke the executor, in every state of the detector.
C9_Original ==
    \A i \in 1..Len(dlog) :
        UnparseableCall(i)
        => StartsWith(dlog[i].result, FailedPrefix) /\ ~dlog[i].ran

\* C9 (amended): a dispatch of a registered tool with unparseable arguments
\* never invokes the executor; it returns a string starting "Failed to parse
\* tool arguments:" unless it is the third identical call in a row, and then
\* it returns the 'Loop detected' message.
C9_UnparseableUnlessLoop ==
    \A i \in 1..Len(dlog) :
        UnparseableCall(i)
        => /\ ~dlog[i].ran
           /\ IF ThirdInARow(i)
              THEN dlog[i].result = LoopText(dlog[i].name)
              ELSE StartsWith(dlog[i].result, FailedPrefix)

C9_Witness ==
    /\ Len(dlog) = 4
    /\ \A i \in 1..4 : UnparseableCall(i) /\ dlog[i].args = ArgsBad
    /\ StartsWith(dlog[2].result, FailedPrefix)
    /\ dlog[3].result = LoopText("read_file")
    /\ StartsWith(dlog[4].result, FailedPrefix)
    /\ executed = <<>>

-----------------------------------------------------------------------------
(* Compaction specification: compactMessages applied once to any message    *)
(* list, with any keepRecentTurns.                                          *)

MaxList == 9

KeepValues == {0, 1, 2, 4}

ListMessages ==
    { StringMsg("user", Small),
      Msg("tool", "string", Huge, <<>>, <<>>, CallId(0, 0)) }

Lists == UNION {[1..n -> ListMessages] : n \in 0..MaxList}

InitCompact ==
    /\ tools = StartupTools
    /\ recentFingerprints = <<>>
    /\ executed = <<>>
    /\ dlog = <<>>
    /\ cachedSystemPrompt = FALSE
    /\ pc = "compact"
    /\ messages \in Lists
    /\ turn = 0
    /\ toolCallsArray = <<>>
    /\ nextCall = 0
    /\ outcome = [kind |-> "none", text |-> <<>>]
    /\ responses = <<>>
    /\ compaction = "none"
    /\ backendCalls = [compaction |-> 0, summary |-> 0]
    /\ keep \in KeepValues
    /\ requests = <<>>
    /\ PromptIdle
    /\ SideIdle

\* messages = await compactMessages(client, model, messages, name, keep)
CompactOnce ==
    /\ pc = "compact"
    /\ \E out \in CompactionOutcomesFor(messages, keep) :
         /\ messages' = CompactMessages(messages, keep, out)
         /\ compaction' = IF ~CompactionCalls(messages, keep) THEN "noop"
                          ELSE IF out.kind = "throw" THEN "failed" ELSE "done"
         /\ backendCalls' = IF CompactionCalls(messages, keep)
                            THEN [backendCalls EXCEPT !.compaction = @ + 1]
                            ELSE backendCalls
         /\ requests' = IF CompactionCalls(messages, keep)
                        THEN Append(requests, [req |-> CompactionRequest, reply |-> out])
                        ELSE requests
    /\ pc' = "compacted"
    /\ UNCHANGED <<cachedSystemPrompt, turn, toolCallsArray, nextCall, outcome, responses, keep,
                   promptVars, sideVars>>
    /\ UNCHANGED regVars

\* compactMessages called again, on what the first call returned
CompactAgain ==
    /\ pc = "compacted"
    /\ \E out \in CompactionOutcomesFor(messages, keep) :
         /\ messages' = CompactMessages(messages, keep, out)
         /\ compaction' = IF ~CompactionCalls(messages, keep) THEN "noop"
                          ELSE IF out.kind = "throw" THEN "failed" ELSE "done"
         /\ backendCalls' = IF CompactionCalls(messages, keep)
                            THEN [backendCalls EXCEPT !.compaction = @ + 1]
                            ELSE backendCalls
         /\ requests' = IF CompactionCalls(messages, keep)
                        THEN Append(requests, [req |-> CompactionRequest, reply |-> out])
                        ELSE requests
    /\ pc' = "recompacted"
    /\ UNCHANGED <<cachedSystemPrompt, turn, toolCallsArray, nextCall, outcome, responses, keep,
                   promptVars, sideVars>>
    /\ UNCHANGED regVars

NextCompact == CompactOnce \/ CompactAgain

SpecCompact == InitCompact /\ [][NextCompact]_vars

-----------------------------------------------------------------------------
(* Prompt specification: getSystemPrompt called by the two callers of       *)
(* chat(), each call suspended at await loadMemory() when it loads, and     *)
(* invalidatePromptCache called at any moment.                              *)
MaxClock == 16

MaxInvalidations == 2

MaxCalls == 2

InitPrompt ==
    /\ tools = StartupTools
    /\ recentFingerprints = <<>>
    /\ executed = <<>>
    /\ dlog = <<>>
    /\ ChatIdle

\* Date.now() moves on, by a minute or by more than PROMPT_CACHE_MS
Tick ==
    /\ \E d \in {1, PROMPT_CACHE_MS + 1} :
         /\ clock + d <= MaxClock
         /\ clock' = clock + d
    /\ UNCHANGED <<lastPromptLoad, cachedFrom, invalidations, loads>>
    /\ UNCHANGED <<cachedSystemPrompt, pc, messages, turn, toolCallsArray, nextCall, outcome,
                   responses, compaction, backendCalls, keep, requests, sideVars>>
    /\ UNCHANGED regVars

\* getSystemPrompt up to await loadMemory(), or to the return of the cached
\* prompt when there is one and it is not older than PROMPT_CACHE_MS
GetSystemPromptStart(c) ==
    /\ loads[c].pc \in {"idle", "done", "failed"}
    /\ loads[c].calls < MaxCalls
    /\ LET now == clock
           first == /\ invalidations >= 1
                    /\ \A d \in Callers :
                         loads[d].pc = "idle" \/ loads[d].started < invalidations
           call == [pc |-> "loading", now |-> now, started |-> invalidations,
                    next |-> first, fresh |-> TRUE, result |-> 0,
                    calls |-> loads[c].calls + 1]
       IN  IF ~cachedSystemPrompt \/ now - lastPromptLoad > PROMPT_CACHE_MS
           THEN loads' = [loads EXCEPT ![c] = call]
           ELSE loads' = [loads EXCEPT ![c] =
                            [call EXCEPT !.pc = "done", !.fresh = FALSE, !.result = cachedFrom]]
    /\ UNCHANGED <<lastPromptLoad, cachedFrom, clock, invalidations>>
    /\ UNCHANGED <<cachedSystemPrompt, pc, messages, turn, toolCallsArray, nextCall, outcome,
                   responses, compaction, backendCalls, keep, requests, sideVars>>
    /\ UNCHANGED regVars

\* loadMemory() resolves: the prompt is built and stored with the Date.now()
\* read at the start of the call, and returned; or loadMemory() rejects
GetSystemPromptLoaded(c) ==
    /\ loads[c].pc = "loading"
    /\ \E ok \in BOOLEAN :
         IF ok
         THEN /\ cachedSystemPrompt' = TRUE
              /\ cachedFrom' = loads[c].started
              /\ lastPromptLoad' = loads[c].now
              /\ loads' = [loads EXCEPT ![c].pc = "done", ![c].result = loads[c].started]
         ELSE /\ loads' = [loads EXCEPT ![c].pc = "failed"]
              /\ UNCHANGED <<cachedSystemPrompt, cachedFrom, lastPromptLoad>>
    /\ UNCHANGED <<clock, invalidations>>
    /\ UNCHANGED <<pc, messages, turn, toolCallsArray, nextCall, outcome,
                   responses, compaction, backendCalls, keep, requests, sideVars>>
    /\ UNCHANGED regVars

\* invalidatePromptCache() called and returned
Invalidate ==
    /\ invalidations < MaxInvalidations
    /\ InvalidatePromptCache
    /\ invalidations' = invalidations + 1
    /\ UNCHANGED <<lastPromptLoad, cachedFrom, clock, loads>>
    /\ UNCHANGED <<pc, messages, turn, toolCallsArray, nextCall, outcome,
                   responses, compaction, backendCalls, keep, requests, sideVars>>
    /\ UNCHANGED <<tools, executed, dlog>>

NextPrompt ==
    \/ Tick
    \/ \E c \in Callers : GetSystemPromptStart(c)
    \/ \E c \in Callers : GetSystemPromptLoaded(c)
    \/ Invalidate

SpecPrompt == InitPrompt /\ [][NextPrompt]_vars

-----------------------------------------------------------------------------
(* Concurrent specification: two turn sequences (a Telegram conversation    *)
(* and a scheduled task) dispatching through the one detector buffer.  A    *)
(* sequence awaits each dispatch, so its dispatches are in its own order,   *)
(* and the other sequence can dispatch, or end, between any two of them.    *)
MaxConc == 4

ConcInputs == {"read_file"} \X {ArgsA, ArgsLong1}

InitConc ==
    /\ tools = StartupTools
    /\ recentFingerprints = <<>>
    /\ executed = <<>>
    /\ dlog = <<>>
    /\ ChatIdle

\* dispatchToolCall called by turn sequence w
ConcDispatch(w) ==
    /\ Len(dlog) < MaxConc
    /\ \E in \in ConcInputs :
         \E out \in OutcomesFor(tools, recentFingerprints, in[1], in[2]) :
            LET r == DispatchToolCall(tools, recentFingerprints, in[1], in[2], out)
            IN  /\ recentFingerprints' = r.buf
                /\ executed' = IF r.ran THEN Append(executed, <<in[1], in[2]>>) ELSE executed
                /\ dlog' = Append(dlog, [op |-> "dispatch", who |-> w,
                                         name |-> in[1], args |-> in[2],
                                         before |-> recentFingerprints,
                                         result |-> r.result, ran |-> r.ran])
    /\ UNCHANGED tools
    /\ UNCHANGED chatVars

\* Turn sequence w ends with invalidatePromptCache(); w's next conversation
\* is a new turn sequence
ConcEnd(w) ==
    /\ Len(dlog) < MaxConc
    /\ InvalidatePromptCache
    /\ dlog' = Append(dlog, [op |-> "reset", who |-> w, name |-> "", args |-> <<>>,
                             before |-> recentFingerprints,
                             result |-> <<>>, ran |-> FALSE])
    /\ UNCHANGED <<tools, executed>>
    /\ UNCHANGED <<pc, messages, turn, toolCallsArray, nextCall, outcome, responses,
                   compaction, backendCalls, keep, requests, promptVars, sideVars>>

NextConc ==
    \/ \E w \in Callers : ConcDispatch(w)
    \/ \E w \in Callers : ConcEnd(w)

SpecConc == InitConc /\ [][NextConc]_vars

-----------------------------------------------------------------------------
(* Protocol specification: the tool calls of a process through the path of  *)
(* its provider, dispatchToolCall (JSON-Schema protocol) or the wrapped     *)
(* executors of getMcpTools (typed-schema protocol).  The provider is       *)
(* resolved once, so every call of a process takes the same path.           *)
MaxProtocol == 4

ProtocolBodies == {Rep("a", 1), Rep("a", LongChars)}

\* activeProvider: the path the earlier calls took, if there were any
PathIs(path) == \A i \in 1..Len(dlog) : dlog[i].path = path

InitProtocol ==
    /\ tools = StartupTools
    /\ recentFingerprints = <<>>
    /\ executed = <<>>
    /\ dlog = <<>>
    /\ ChatIdle

\* dispatchToolCall("read_file", argsJson)
JsonSchemaCall ==
    /\ Len(dlog) < MaxProtocol
    /\ PathIs("json")
    /\ \E body \in ProtocolBodies :
         \E out \in OutcomesFor(tools, recentFingerprints, "read_file", Obj(body)) :
            LET r == DispatchToolCall(tools, recentFingerprints, "read_file", Obj(body), out)
            IN  /\ recentFingerprints' = r.buf
                /\ executed' = IF r.ran THEN Append(executed, <<"read_file", Obj(body)>>)
                               ELSE executed
                /\ dlog' = Append(dlog, [op |-> "dispatch", path |-> "json",
                                         name |-> "read_file", args |-> Obj(body),
                                         before |-> recentFingerprints,
                                         result |-> r.result, ran |-> r.ran,
                                         isError |-> FALSE, threw |-> FALSE])
    /\ UNCHANGED tools
    /\ UNCHANGED chatVars

\* The wrapped executor of read_file called with an arguments object
TypedSchemaCall ==
    /\ Len(dlog) < MaxProtocol
    /\ PathIs("mcp")
    /\ \E body \in ProtocolBodies :
         LET t == tools["read_file"]
             args == ArgsObject(body)
         IN  \E out \in McpOutcomesFor(t, recentFingerprints, args) :
                LET r == McpToolCall(t, recentFingerprints, args, out)
                IN  /\ recentFingerprints' = r.buf
                    /\ executed' = IF r.ran
                                   THEN Append(executed, <<t.name, JsonStringify(args)>>)
                                   ELSE executed
                    /\ dlog' = Append(dlog, [op |-> "dispatch", path |-> "mcp",
                                             name |-> t.name, args |-> JsonStringify(args),
                                             before |-> recentFingerprints,
                                             result |-> r.content, ran |-> r.ran,
                                             isError |-> r.isError, threw |-> r.threw])
    /\ UNCHANGED tools
    /\ UNCHANGED chatVars

\* A conversation ends: invalidatePromptCache()
ProtocolEnd ==
    /\ Len(dlog) < MaxProtocol
    /\ dlog # <<>>
    /\ InvalidatePromptCache
    /\ dlog' = Append(dlog, [op |-> "reset", path |-> dlog[1].path, name |-> "",
                             args |-> <<>>, before |-> recentFingerprints,
                             result |-> <<>>, ran |-> FALSE,
                             isError |-> FALSE, threw |-> FALSE])
    /\ UNCHANGED <<tools, executed>>
    /\ UNCHANGED <<pc, messages, turn, toolCallsArray, nextCall, outcome, responses,
                   compaction, backendCalls, keep, requests, promptVars, sideVars>>

NextProtocol == JsonSchemaCall \/ TypedSchemaCall \/ ProtocolEnd

SpecProtocol == InitProtocol /\ [][NextProtocol]_vars

-----------------------------------------------------------------------------
(* Estimate specification: estimateTokens over the lists built by appending *)
(* one message at a time, from the empty list.                              *)
MaxAppend == 4

AppendMessages ==
    { StringMsg("user", Rep("a", 1)),
      StringMsg("tool", Rep("a", 3)),
      StringMsg("user", Rep("a", 4)),
      Msg("user", "parts", <<>>, <<TextPart(Rep("a", 2)), ImagePart>>, <<>>, NoId),
      Msg("user", "parts", <<>>, <<ImagePart>>, <<>>, NoId),
      Msg("assistant", "null", <<>>, <<>>,
          <<[id |-> CallId(0, 0), name |-> "ghost", arguments |-> ArgsA]>>, NoId) }

InitEstimate ==
    /\ tools = StartupTools
    /\ recentFingerprints = <<>>
    /\ executed = <<>>
    /\ dlog = <<>>
    /\ ChatIdle

\* messages.push(m)
AppendMessage ==
    /\ Len(messages) < MaxAppend
    /\ \E m \in AppendMessages : messages' = Append(messages, m)
    /\ UNCHANGED <<cachedSystemPrompt, pc, turn, toolCallsArray, nextCall, outcome, responses,
                   compaction, backendCalls, keep, requests, promptVars, sideVars>>
    /\ UNCHANGED regVars

NextEstimate == AppendMessage

SpecEstimate == InitEstimate /\ [][NextEstimate]_vars

-----------------------------------------------------------------------------
(* Claims about compaction and the turn loop                                *)

\* Every tool-role message of msgs carries the id of a call recorded by an
\* assistant message earlier in msgs.
ToolMessagesFollowTheirCall(msgs) ==
    \A i \in 1..Len(msgs) :
        msgs[i].role = "tool"
        => \E j \in 1..(i - 1) :
              /\ msgs[j].role = "assistant"
              /\ \E c \in 1..Len(msgs[j].tool_calls) :
                    msgs[j].tool_calls[c].id = msgs[i].tool_call_id

\* The running list is about to be sent: by the primary call, or (with one
\* more user message) by the summary call.
AboutToSend == pc = "call" \/ (pc = "turn" /\ turn >= MaxToolTurns)

\* C2: in every message list the turn loop sends to the backend, every
\* tool-role message carries a tool_call_id found in the tool_calls of an
\* assistant message earlier in the list, also after compactions.
C2_ToolMessagesReferToEarlierCall ==
    AboutToSend => ToolMessagesFollowTheirCall(messages)

IsCheckpoint(msg) ==
    /\ msg.role = "user"
    /\ msg.ckind = "string"
    /\ SliceTo(msg.content, 65) = CheckpointHeader

C4_FailedCompactionKeepsList ==
    [][ (backendCalls'.compaction = backendCalls.compaction + 1 /\ compaction' = "failed")
        => (messages' = messages /\ pc' = "call") ]_vars

C4_Witness ==
    /\ compaction = "failed"
    /\ backendCalls.compaction = 1
    /\ pc = "returned"
    /\ outcome.kind = "DONE"
    /\ Len(responses) = MaxToolTurns
    /\ Len(messages) >= 8

\* Every primary call so far was answered, and with at least one tool call.
AlwaysTools ==
    \A i \in 1..Len(responses) :
        responses[i].kind = "stream" /\ Len(responses[i].calls) >= 1

RECURSIVE RequestedCalls(_)
RequestedCalls(rs) ==
    IF rs = <<>> THEN <<>>
    ELSE (IF Head(rs).kind = "stream" THEN Head(rs).calls ELSE <<>>)
         \o RequestedCalls(Tail(rs))

\* C5: with a backend that asks for a tool call on every primary call the
\* turn sequence ends in CEILING_REACHED after exactly maxToolTurns primary
\* calls and exactly one summary call, which comes last: no tool is
\* dispatched after the last turn.
C5_CeilingAfterMaxToolTurns ==
    AlwaysTools
    => /\ Len(responses) <= MaxToolTurns
       /\ backendCalls.summary = 1 <=> pc = "returned"
       /\ pc = "returned"
          => /\ outcome.kind = "CEILING"
             /\ Len(responses) = MaxToolTurns
             /\ turn = MaxToolTurns
             /\ Len(dlog) = Len(RequestedCalls(responses))

C5_Witness ==
    /\ AlwaysTools
    /\ pc = "returned"
    /\ outcome.kind = "CEILING"
    /\ Len(responses) = MaxToolTurns
    /\ backendCalls = [compaction |-> 1, summary |-> 1]

\* C6: when the first response holds no tool call the turn sequence is DONE
\* after that one backend call: nothing is dispatched, and the detector
\* buffer is left as the closing reset leaves it.
C6_NoToolCallsOnTurnZero ==
    (Len(responses) >= 1 /\ responses[1].kind = "stream" /\ responses[1].calls = <<>>)
    => /\ pc = "returned"
       /\ outcome.kind = "DONE"
       /\ Len(responses) = 1
       /\ backendCalls = [compaction |-> 0, summary |-> 0]
       /\ dlog = <<>>
       /\ executed = <<>>
       /\ recentFingerprints = <<>>

C6_Witness ==
    /\ pc = "returned"
    /\ outcome = [kind |-> "DONE", text |-> <<[s |-> "do", n |-> 2], [s |-> "ne", n |-> 2]>>]
    /\ Len(responses) = 1
    /\ compaction = "noop"
    /\ dlog = <<>>

\* The backend followed the script: tool calls on the first n responses, then
\* a response of text alone.
ScriptedToolsThenText ==
    /\ Len(responses) >= 1
    /\ \A i \in 1..(Len(responses) - 1) :
          responses[i].kind = "stream" /\ Len(responses[i].calls) >= 1
    /\ responses[Len(responses)].kind = "stream"
    /\ responses[Len(responses)].calls = <<>>

FinalText == responses[Len(responses)].content

\* Each requested call was dispatched once, in the order requested.
DispatchedAsRequested ==
    LET req == RequestedCalls(responses)
    IN  /\ Len(dlog) = Len(req)
        /\ \A k \in 1..Len(req) :
              dlog[k].name = req[k].name /\ dlog[k].args = req[k].arguments

\* C7 as stated: after tool calls on the first n responses and then text T,
\* there were n+1 primary calls, every requested call was dispatched once and
\* T is returned.
C7_Original ==
    ScriptedToolsThenText
    => /\ pc = "returned"
       /\ outcome.kind = "DONE"
       /\ turn = Len(responses) - 1
       /\ DispatchedAsRequested
       /\ outcome.text = FinalText

HasNoThinkTag(t) == \A i \in 1..Len(t) : t[i].s # "<think>"

\* C7 (amended): after tool calls on the first n responses and then text T,
\* there were n+1 primary calls, every requested call was dispatched once and
\* the result is T without its <think> segments: T itself when T holds no
\* <think> tag.
C7_ScriptedRun ==
    ScriptedToolsThenText
    => /\ pc = "returned"
       /\ outcome.kind = "DONE"
       /\ turn = Len(responses) - 1
       /\ DispatchedAsRequested
       /\ HasNoThinkTag(outcome.text)
       /\ HasNoThinkTag(FinalText) => outcome.text = FinalText
       /\ FinalText = <<[s |-> "<think>", n |-> 7], [s |-> "plan", n |-> 4],
                        [s |-> "</think>", n |-> 8], [s |-> "done", n |-> 4]>>
          => outcome.text = <<[s |-> "done", n |-> 4]>>

C7_Witness ==
    /\ ScriptedToolsThenText
    /\ Len(responses) = 2
    /\ Len(dlog) = 1
    /\ dlog[1].name = "read_file" /\ dlog[1].ran /\ dlog[1].result = Small
    /\ outcome = [kind |-> "DONE", text |-> <<[s |-> "do", n |-> 2], [s |-> "ne", n |-> 2]>>]

\* C10: when a primary backend call fails (the request is rejected or the
\* stream breaks) the turn sequence returns the fixed string "Sorry, I hit an
\* error processing that. Try again in a moment.", whatever was thrown.
C10_TransportErrorString ==
    (Len(responses) >= 1 /\ responses[Len(responses)].kind \in {"reject", "break"})
    => /\ pc = "returned"
       /\ outcome =
            [kind |-> "ERROR",
             text |-> <<[s |-> "Sorry, I hit an error processing that. Try again in a moment.",
                         n |-> 61]>>]

C10_Witness ==
    /\ Len(responses) = MaxToolTurns
    /\ responses[Len(responses)].kind = "break"
    /\ responses[1].kind = "stream"
    /\ pc = "returned"
    /\ outcome.kind = "ERROR"
    /\ Len(dlog) >= 2

\* C11 (as stated): every invocation of chat returns a string, whichever step
\* fails; no exception reaches the caller.
C11_Original == outcome.kind # "EXCEPTION"

\* C11: an invocation of chat that has its access token and its system prompt
\* ends by returning a string, whichever later step fails (backend call,
\* compaction, tool executor, summary call); an exception reaches the caller
\* only from the token acquisition or the prompt load, before any message is
\* built and before any request or dispatch.
C11_StringUnlessStartFails ==
    /\ (pc = "threw") <=> (outcome.kind = "EXCEPTION")
    /\ pc = "threw" => /\ messages = <<>>
                       /\ requests = <<>>
                       /\ dlog = <<>>
    /\ pc = "returned" => /\ outcome.kind \in {"DONE", "CEILING", "ERROR"}
                          /\ messages # <<>>

C11_Witness ==
    /\ pc = "returned"
    /\ outcome.kind = "ERROR"
    /\ compaction = "failed"
    /\ \E i \in 1..Len(dlog) : StartsWith(dlog[i].result, FailedPrefix)

C14_ReturnAfterInvalidate ==
    pc = "returned" => /\ recentFingerprints = <<>>
                       /\ ~cachedSystemPrompt

\* C17 (as stated): whenever a primary backend call is issued, the estimate
\* of the list sent is at or below the compaction threshold of the model.
C17_Original ==
    pc = "call" => EstimateTokens(messages) <= GetModelLimits(Model).compactionThreshold

\* C17: whenever a primary backend call is issued with a list whose estimate
\* is above the compaction threshold, compactMessages was called at the top
\* of that turn and either returned the list as it was (fewer than
\* keepRecentTurns + 4 messages, or the summarizing call failed) or returned
\* the first two messages, one checkpoint and the last keepRecentTurns
\* messages, which together are still above the threshold; a list at or below
\* the threshold is sent without any compaction.
C17_CompactionAttempted ==
    pc = "call"
    => LET over == EstimateTokens(messages) > GetModelLimits(Model).compactionThreshold
       IN  /\ compaction = "none" => ~over
           /\ compaction = "noop" => over /\ Len(messages) < keep + 4
           /\ compaction = "failed" => over /\ Len(messages) >= keep + 4
           /\ compaction = "done" => /\ Len(messages) = keep + 3
                                     /\ IsCheckpoint(messages[3])

C17_Witness ==
    /\ pc = "call"
    /\ compaction = "done"
    /\ EstimateTokens(messages) > GetModelLimits(Model).compactionThreshold

\* C18: compactMessages applied to the output of a successful compaction,
\* with the same keepRecentTurns, returns that list unchanged and makes no
\* backend call.
C18_RecompactionIsNoOp ==
    [][ (pc = "compacted" /\ compaction = "done" /\ pc' = "recompacted")
        => /\ messages' = messages
           /\ backendCalls' = backendCalls
           /\ requests' = requests
           /\ compaction' = "noop" ]_vars

C18_Witness ==
    /\ pc = "recompacted"
    /\ compaction = "noop"
    /\ backendCalls.compaction = 1
    /\ Len(requests) = 1 /\ requests[1].reply.kind = "ok"
    /\ Len(messages) = keep + 3
    /\ IsCheckpoint(messages[3])

\* The message has at least one character of text
NonEmptyMessage(m) ==
    \/ m.ckind = "string" /\ TextLen(m.content) >= 1
    \/ m.ckind = "parts" /\ \E i \in 1..Len(m.parts) :
                               m.parts[i].type = "text" /\ TextLen(m.parts[i].text) >= 1

\* The message has a string content, a text part or a tool call (name and
\* arguments together) of at least four characters
FourCharsOrMore(m) ==
    \/ m.ckind = "string" /\ TextLen(m.content) >= 4
    \/ m.ckind = "parts" /\ \E i \in 1..Len(m.parts) :
                               m.parts[i].type = "text" /\ TextLen(m.parts[i].text) >= 4
    \/ \E i \in 1..Len(m.tool_calls) :
          NameLength(m.tool_calls[i].name) + TextLen(m.tool_calls[i].arguments) >= 4

Appended == messages'[Len(messages')]

\* C19 (as stated): appending a non-empty message strictly increases
\* estimateTokens.
C19_Original ==
    [][ (Len(messages') = Len(messages) + 1 /\ NonEmptyMessage(Appended))
        => EstimateTokens(messages') > EstimateTokens(messages) ]_vars

\* C19: estimateTokens never decreases under append, and it strictly
\* increases when the appended message has a string content, a text part or
\* a tool call of at least four characters; a message of one to three
\* characters, or of non-text parts only, can leave it unchanged.
C19_MonotonicUnderAppend ==
    [][ Len(messages') = Len(messages) + 1
        => /\ EstimateTokens(messages') >= EstimateTokens(messages)
           /\ FourCharsOrMore(Appended)
                => EstimateTokens(messages') > EstimateTokens(messages) ]_vars

\* A list to which a one-character message was appended without changing the
\* estimate, after a tool-call message that did change it.
C19_Witness ==
    /\ Len(messages) = 3
    /\ messages[1] = StringMsg("user", Rep("a", 1))
    /\ messages[2].tool_calls # <<>>
    /\ messages[3] = StringMsg("user", Rep("a", 1))
    /\ EstimateTokens(SubSeq(messages, 1, 1)) = 1
    /\ EstimateTokens(SubSeq(messages, 1, 2)) = 3
    /\ EstimateTokens(messages) = 3

\* C13: once invalidatePromptCache() has returned, the next getSystemPrompt
\* call that starts goes to load the prompt, and what it returns is not a
\* prompt whose load began before the invalidation; in every interleaving,
\* also with a load in flight when the cache is invalidated.
C13_FreshLoadAfterInvalidate ==
    \A c \in Callers :
        (loads[c].pc # "idle" /\ loads[c].next)
        => /\ loads[c].fresh
           /\ loads[c].pc = "done" => loads[c].result >= loads[c].started

\* Entries i < j < k of the log are three dispatches in a row of one turn
\* sequence, in its own order: the same sequence made them and made no other
\* dispatch, and did not end, in between.
OwnThreeInARow(i, j, k) ==
    /\ i < j /\ j < k
    /\ IsDispatch(i) /\ IsDispatch(j) /\ IsDispatch(k)
    /\ dlog[i].who = dlog[k].who /\ dlog[j].who = dlog[k].who
    /\ \A m \in (i + 1)..(k - 1) : m # j => dlog[m].who # dlog[k].who

\* Dispatch k is at least the third identical call in a row of its sequence
OwnThirdIdentical(k) ==
    \E i, j \in 1..Len(dlog) :
        OwnThreeInARow(i, j, k) /\ SameCall(i, k) /\ SameCall(j, k)

\* Dispatch k was answered by the detector
LoopAnswered(k) == IsDispatch(k) /\ dlog[k].result = LoopText(dlog[k].name)

\* C15: with two turn sequences dispatching through the one detector buffer
\* a sequence can be answered 'Loop detected' for a call it has itself
\* dispatched fewer than three times in a row.  The detector answers exactly
\* when the two dispatches before it in the process-wide order, with no reset
\* or detection since, were the identical call, whichever sequence made
\* them; when the answered sequence made fewer than three itself, one of
\* those two was an identical call of the other sequence.
C15_FalsePositiveFromOtherSequence ==
    \A k \in 1..Len(dlog) :
        IsDispatch(k)
        => /\ LoopAnswered(k)
              <=> /\ k >= 3
                  /\ SameCall(k - 1, k) /\ SameCall(k - 2, k)
                  /\ ~LoopAnswered(k - 1) /\ ~LoopAnswered(k - 2)
           /\ (LoopAnswered(k) /\ ~OwnThirdIdentical(k))
              => \E m \in {k - 1, k - 2} : dlog[m].who # dlog[k].who /\ SameCall(m, k)

C15_Witness ==
    \E k \in 1..Len(dlog) :
        /\ LoopAnswered(k)
        /\ ~OwnThirdIdentical(k)
        /\ \A i \in 1..(k - 1) : dlog[i].who = dlog[k].who => ~SameCall(i, k)

\* C16: with two turn sequences running, one of them can dispatch the
\* identical call three or more times in a row, in its own order, with every
\* one of them executed.  Whenever that happens the other sequence has
\* dispatched, or has ended its conversation (resetLoopDetection), between
\* the first and the third of them.
C16_MissedLoopFromOtherSequence ==
    \A i, j, k \in 1..Len(dlog) :
        ( /\ OwnThreeInARow(i, j, k)
          /\ SameCall(i, k) /\ SameCall(j, k)
          /\ dlog[i].ran /\ dlog[j].ran /\ dlog[k].ran )
        => \E m \in (i + 1)..(k - 1) :
              /\ dlog[m].who # dlog[k].who
              /\ \/ dlog[m].op = "reset"
                 \/ IsDispatch(m)

C16_Witness ==
    /\ Len(dlog) = 4
    /\ OwnThreeInARow(1, 2, 4)
    /\ SameCall(1, 4) /\ SameCall(2, 4)
    /\ dlog[1].ran /\ dlog[2].ran /\ dlog[4].ran
    /\ dlog[3].op = "reset"
    /\ dlog[3].who # dlog[4].who

\* C20: in both execution paths (dispatchToolCall, and the wrapped executor
\* built by getMcpTools) the loop detector is asked before the executor runs:
\* of three consecutive identical calls from an empty buffer the first two
\* reach the executor, the third does not and gets the corrective message,
\* with the error flag set in the typed-schema protocol; no call answered by
\* the detector reaches the executor.
C20_DetectorBeforeExecutorOnBothPaths ==
    /\ \A k \in 1..Len(dlog) : LoopAnswered(k) => ~dlog[k].ran
    /\ \A i \in 1..Len(dlog) :
          ( /\ IsDispatch(i) /\ dlog[i].before = <<>>
            /\ SameCall(i, i + 1) /\ SameCall(i, i + 2) )
          => /\ dlog[i].ran /\ dlog[i + 1].ran
             /\ ~dlog[i + 2].ran
             /\ ~dlog[i + 2].threw
             /\ dlog[i + 2].result = LoopText(dlog[i].name)
             /\ dlog[i + 2].path = "mcp" => dlog[i + 2].isError

C20_Witness ==
    /\ Len(dlog) = 3
    /\ dlog[1].path = "mcp"
    /\ dlog[1].args = Obj(Rep("a", LongChars))
    /\ SameCall(1, 2) /\ SameCall(1, 3)
    /\ dlog[1].ran /\ dlog[2].threw
    /\ LoopAnswered(3) /\ dlog[3].isError /\ ~dlog[3].ran
    /\ Len(executed) = 2

-----------------------------------------------------------------------------
(* The registry as a store of descriptors (registry.ts:32, 79-103,          *)
(* 145-180).  A descriptor carries its name, its category, its description  *)
(* and its executor; the two versions of a descriptor differ in the last    *)
(* two.  What an array-valued rendering returns is modelled as the set of   *)
(* its elements.                                                            *)

MaxRegistry == 3

Categories == {"unset", "always", "coding"}

Descriptor(name, category, v) ==
    [name |-> name, category |-> category,
     description |-> <<"description", v>>, execute |-> <<"execute", v>>]

Descriptors ==
    {Descriptor(n, c, v) : n \in {"read_file", "run_code"}, c \in Categories, v \in {1, 2}}

\* what the executor of a descriptor resolves to: a text naming that executor
ToolExecute(t) == [kind |-> "ok", text |-> Lit(t.execute, 8)]

RegisterTool_FirstWins(reg, t) ==
    [n \in DOMAIN reg \cup {t.name} |-> IF n \in DOMAIN reg THEN reg[n] ELSE t]

\* tools.set(reg.name, reg)
RegisterTool(reg, t) ==
    [n \in DOMAIN reg \cup {t.name} |-> IF n = t.name THEN t ELSE reg[n]]

FilterTools_UnsetIsCoding(reg, includeCoding) ==
    {reg[n] : n \in {k \in DOMAIN reg : includeCoding \/ reg[k].category = "always"}}

\* filter((t) => includeCoding || (t.category ?? "always") === "always")
FilterTools(reg, includeCoding) ==
    {reg[n] : n \in {k \in DOMAIN reg :
                       \/ includeCoding
                       \/ (IF reg[k].category = "unset" THEN "always"
                           ELSE reg[k].category) = "always"}}

GetOpenAiToolDefinitions(reg, includeCoding) ==
    {[type |-> "function",
      function |-> [name |-> t.name, description |-> t.description]] :
        t \in FilterTools(reg, includeCoding)}

\* the MCP server gets every tool, each wrapped around its own executor
GetMcpTools(reg) ==
    {[name |-> reg[n].name, description |-> reg[n].description,
      handler |-> reg[n].execute] : n \in DOMAIN reg}

\* `mcp__tools__${t.name}`
McpAllowedName(name) == <<"mcp__tools__", name>>

GetMcpAllowedToolNames(reg, includeCoding) ==
    {McpAllowedName(t.name) : t \in FilterTools(reg, includeCoding)}

\* the module with an empty Map, before the tool modules register
InitRegistry ==
    /\ tools = <<>>
    /\ recentFingerprints = <<>>
    /\ executed = <<>>
    /\ dlog = <<>>
    /\ ChatIdle

Register ==
    /\ Len(dlog) < MaxRegistry
    /\ \E t \in Descriptors :
         /\ tools' = RegisterTool(tools, t)
         /\ dlog' = Append(dlog, [op |-> "register", tool |-> t])
    /\ UNCHANGED <<recentFingerprints, executed>>
    /\ UNCHANGED chatVars

\* dispatchToolCall(name, "{}", "openai") with the executor the registry holds
RegistryDispatch ==
    /\ Len(dlog) < MaxRegistry
    /\ \E name \in ToolNames :
         LET out == IF name \in DOMAIN tools THEN ToolExecute(tools[name]) ELSE NoOutcome
             r == DispatchToolCall(tools, recentFingerprints, name, Obj(<<>>), out)
         IN  /\ recentFingerprints' = r.buf
             /\ executed' = IF r.ran THEN Append(executed, <<name, Obj(<<>>)>>) ELSE executed
             /\ dlog' = Append(dlog, [op |-> "dispatch", name |-> name, args |-> Obj(<<>>),
                                      before |-> recentFingerprints,
                                      result |-> r.result, ran |-> r.ran])
    /\ UNCHANGED tools
    /\ UNCHANGED chatVars

NextRegistry == Register \/ RegistryDispatch

SpecRegistry == InitRegistry /\ [][NextRegistry]_vars

\* the registerTool calls so far under one name, as positions of the log
RegisteredAt(name, upto) ==
    {i \in 1..upto : dlog[i].op = "register" /\ dlog[i].tool.name = name}

LastOf(S) == CHOOSE x \in S : \A y \in S : y <= x

LastRegistered(name, upto) == dlog[LastOf(RegisteredAt(name, upto))].tool

EverRegistered == {dlog[i].tool.name : i \in RegisteredAt("read_file", Len(dlog))
                                              \cup RegisteredAt("run_code", Len(dlog))}

\* C21: after any sequence of registerTool calls the registry holds exactly
\* one descriptor per identifier ever registered, the one registered last
\* under it; the backend rendering, the typed-schema rendering and dispatch
\* use that descriptor (a dispatch runs its executor unless the loop detector
\* answers in its place); no identifier ever leaves the registry.
C21_LastRegistrationWins ==
    /\ DOMAIN tools = EverRegistered
    /\ \A n \in DOMAIN tools :
          LET last == LastRegistered(n, Len(dlog))
          IN  /\ tools[n] = last
              /\ {d \in GetOpenAiToolDefinitions(tools, TRUE) : d.function.name = n}
                   = {[type |-> "function",
                       function |-> [name |-> n, description |-> last.description]]}
              /\ {d \in GetMcpTools(tools) : d.name = n}
                   = {[name |-> n, description |-> last.description,
                       handler |-> last.execute]}
    /\ \A i \in 1..Len(dlog) :
          dlog[i].op = "dispatch" =>
             IF RegisteredAt(dlog[i].name, i) = {}
             THEN ~dlog[i].ran /\ dlog[i].result = UnknownToolMessage(dlog[i].name)
             ELSE IF dlog[i].ran
             THEN dlog[i].result = ToolExecute(LastRegistered(dlog[i].name, i)).text
             ELSE dlog[i].result = LoopMessage(dlog[i].name)

\* read_file registered twice with different descriptors, then dispatched
C21_Witness ==
    /\ Len(dlog) = 3
    /\ dlog[1].op = "register" /\ dlog[2].op = "register" /\ dlog[3].op = "dispatch"
    /\ dlog[1].tool.name = "read_file" /\ dlog[2].tool.name = "read_file"
    /\ dlog[1].tool.execute # dlog[2].tool.execute
    /\ dlog[1].tool.category # dlog[2].tool.category
    /\ dlog[3].name = "read_file" /\ dlog[3].ran

StripMcpPrefix(allowed) == allowed[2]

\* C22: for any registry contents and either value of includeCoding the
\* identifiers rendered for the backend are those allowed to the typed-schema
\* protocol with the mcp__tools__ prefix removed; without includeCoding they
\* are the tools of category 'always' or of no category, with it every
\* registered tool.
C22_SameToolsOnBothRenderings ==
    /\ \A ic \in BOOLEAN :
          /\ \A a \in GetMcpAllowedToolNames(tools, ic) : a[1] = "mcp__tools__"
          /\ {d.function.name : d \in GetOpenAiToolDefinitions(tools, ic)}
               = {StripMcpPrefix(a) : a \in GetMcpAllowedToolNames(tools, ic)}
    /\ {d.function.name : d \in GetOpenAiToolDefinitions(tools, FALSE)}
         = {n \in DOMAIN tools : tools[n].category \in {"always", "unset"}}
    /\ {d.function.name : d \in GetOpenAiToolDefinitions(tools, TRUE)} = DOMAIN tools

\* one tool without a category and one coding tool are registered
C22_Witness ==
    /\ DOMAIN tools = {"read_file", "run_code"}
    /\ tools["read_file"].category = "unset"
    /\ tools["run_code"].category = "coding"
    /\ GetMcpAllowedToolNames(tools, FALSE) = {McpAllowedName("read_file")}
    /\ Cardinality(GetOpenAiToolDefinitions(tools, TRUE)) = 2

-----------------------------------------------------------------------------
\* The turn whose tool calls are being, or have just been, dispatched: the
\* calls the last primary response asked for, how many of them are answered,
\* and how many messages the request of that turn carried
TurnCalls == responses[Len(responses)].calls

TurnAnswered == IF pc = "tools" THEN nextCall - 1 ELSE Len(TurnCalls)

TurnBase == requests[Len(requests)].req.messages

\* the detector's buffer as the dispatch logged at position i left it
BufferAfter(i) ==
    IF dlog[i].name \notin DOMAIN tools THEN dlog[i].before
    ELSE CheckLoopDetection(dlog[i].before, dlog[i].name, dlog[i].args).buf

\* C29: in a turn where the backend asked for k >= 1 tool calls the loop has
\* appended, to the messages it sent, one assistant message recording the k
\* calls and then one tool message per call answered so far, in the order
\* the calls were asked for, each with its call's id and the text dispatch
\* returned for it (a result, Unknown tool, Failed to parse or Loop detected);
\* every dispatch starts from the detector state the previous one left; after
\* the k-th the loop is at the test of the next turn.
C29_OneToolMessagePerCallInOrder ==
    (pc = "tools" \/ (pc = "turn" /\ turn >= 1)) =>
       LET k == Len(TurnCalls)
           d == TurnAnswered
           D == Len(dlog)
       IN  /\ k >= 1
           /\ requests[Len(requests)].req.kind = "primary"
           /\ Len(messages) = TurnBase + 1 + d
           /\ messages[TurnBase + 1].role = "assistant"
           /\ messages[TurnBase + 1].tool_calls = TurnCalls
           /\ D >= d
           /\ \A j \in 1..d :
                 /\ messages[TurnBase + 1 + j].role = "tool"
                 /\ messages[TurnBase + 1 + j].tool_call_id = TurnCalls[j].id
                 /\ messages[TurnBase + 1 + j].tool_calls = <<>>
                 /\ dlog[D - d + j].name = TurnCalls[j].name
                 /\ dlog[D - d + j].args = TurnCalls[j].arguments
                 /\ messages[TurnBase + 1 + j].content = dlog[D - d + j].result
                 /\ j > 1 => dlog[D - d + j].before = BufferAfter(D - d + j - 1)
           /\ pc = "turn" => /\ d = k
                             /\ turn = Cardinality({i \in 1..Len(responses) :
                                                      responses[i].calls # <<>>})
                             /\ toolCallsArray = <<>>

\* three turns of two calls each: an unknown tool and unparseable arguments,
\* the third time answered by the loop detector
C29_Witness ==
    /\ pc = "turn" /\ turn = 3
    /\ Len(TurnCalls) = 2
    /\ Len(messages) = TurnBase + 3
    /\ messages[Len(messages) - 1].content = UnknownToolMessage("ghost")
    /\ messages[Len(messages)].content = LoopMessage("read_file")
    /\ messages[Len(messages)].tool_call_id = CallId(2, 1)
    /\ messages[Len(messages) - 3].content = FailedToParse(JsonErrorMessage(ArgsBad))

-----------------------------------------------------------------------------
(* Reassembly of streamed tool calls taken one fragment at a time           *)
(* (openai.ts:61-107): every fragment of delta.tool_calls goes through      *)
(* AccumulateDelta; the fragments received are kept in events.              *)

MaxFragments == 3

\* what a fragment can carry: an index, an id or none, a name or none, a
\* piece of the arguments or none
Fragments ==
    {Delta(ix, id, name, piece) :
        ix \in {0, 1}, id \in {NoId, CallId(0, 0)}, name \in {"", "read_file"},
        piece \in {<<>>, Lit("{", 1), Rep("a", 1)}}

\* the registry and the turn loop idle, the accumulator a new Map
InitStream ==
    /\ tools = StartupTools
    /\ recentFingerprints = <<>>
    /\ executed = <<>>
    /\ dlog = <<>>
    /\ ChatIdle

\* for (const tc of delta.tool_calls): one fragment
StreamFragment ==
    /\ Len(events) < MaxFragments
    /\ \E tc \in Fragments :
         /\ toolCallAccumulator' = AccumulateDelta(toolCallAccumulator, tc)
         /\ events' = Append(events, tc)
    /\ UNCHANGED coreVars
    /\ UNCHANGED <<dateNow, userTimestamps, conversations, conversationsFile, schedules,
                   executing, alertState, lastReplaceTime, memoryCalls, rateResult, checking>>

SpecStream == InitStream /\ [][StreamFragment]_vars

\* the fragments received for one index, in arrival order
FragmentsOf(ix) == SelectSeq(events, LAMBDA f : f.index = ix)

RECURSIVE PiecesInOrder(_)
PiecesInOrder(fs) ==
    IF fs = <<>> THEN <<>> ELSE Concat(Head(fs).arguments, PiecesInOrder(Tail(fs)))

IndexesSeen == {events[i].index : i \in 1..Len(events)}

\* C30: whatever the order in which fragments of different indexes arrive,
\* the accumulator holds one call per index seen; each has the id and the
\* name of the first fragment received for its index and, as arguments, the
\* pieces of all fragments of that index joined in arrival order; the array
\* of runnable calls has one element per index seen.
C30_ReassembledByIndex ==
    /\ Len(toolCallAccumulator) = Cardinality(IndexesSeen)
    /\ \A ix \in IndexesSeen :
          LET mine == {i \in 1..Len(toolCallAccumulator) : toolCallAccumulator[i].index = ix}
          IN  /\ Cardinality(mine) = 1
              /\ \A i \in mine :
                    /\ toolCallAccumulator[i].id = FragmentsOf(ix)[1].id
                    /\ toolCallAccumulator[i].name = FragmentsOf(ix)[1].name
                    /\ toolCallAccumulator[i].arguments = PiecesInOrder(FragmentsOf(ix))
    /\ LET calls == ToolCallsArray(<<Chunk(<<>>, events)>>)
       IN  /\ Len(calls) = Cardinality(IndexesSeen)
           /\ \A i \in 1..Len(calls) :
                 calls[i] = [id |-> toolCallAccumulator[i].id,
                             name |-> toolCallAccumulator[i].name,
                             arguments |-> toolCallAccumulator[i].arguments]

\* index 1 opens, index 0 opens, index 1 continues with another id
C30_Witness ==
    /\ Len(events) = 3
    /\ events[1].index = 1 /\ events[2].index = 0 /\ events[3].index = 1
    /\ events[1].id = NoId /\ events[3].id = CallId(0, 0)
    /\ events[1].name = "read_file" /\ events[3].name = ""
    /\ events[1].arguments = Lit("{", 1) /\ events[3].arguments = Rep("a", 1)
    /\ Len(toolCallAccumulator) = 2
    /\ toolCallAccumulator[1].arguments = ArgsBad

-----------------------------------------------------------------------------
(* getModelLimits applied to model identifiers (context-limits.ts:52-54):   *)
(* identifiers of the table, identifiers that name nothing, and identifiers *)
(* that name a property every object inherits.                              *)

MaxLookups == 2

ModelIds ==
    DOMAIN MODEL_LIMITS
    \cup {"", "llama-3", "gpt-4", "GPT-4O"}
    \cup {"constructor", "toString", "__proto__"}

InitLimits ==
    /\ tools = StartupTools
    /\ recentFingerprints = <<>>
    /\ executed = <<>>
    /\ dlog = <<>>
    /\ ChatIdle

\* getModelLimits(model) called and returned
LookupLimits ==
    /\ Len(events) < MaxLookups
    /\ \E model \in ModelIds :
         events' = Append(events, [op |-> "getModelLimits", model |-> model,
                                   limits |-> GetModelLimits(model)])
    /\ UNCHANGED coreVars
    /\ UNCHANGED <<dateNow, toolCallAccumulator, userTimestamps, conversations,
                   conversationsFile, schedules, executing, alertState, lastReplaceTime,
                   memoryCalls, rateResult, checking>>

SpecLimits == InitLimits /\ [][LookupLimits]_vars

\* floor(0.7 * contextWindow), exact for the windows of the table
Floor70(contextWindow) == (contextWindow * 7) \div 10

\* C23: for every model identifier, in the table or not, getModelLimits
\* returns limits whose compactionThreshold is floor(0.7 * contextWindow) and
\* at most contextWindow, and an identifier that the table does not list gets
\* the default limits, contextWindow 128000.
C23_LimitsForEveryIdentifier ==
    \A i \in 1..Len(events) :
       LET l == events[i].limits
       IN  /\ {"contextWindow", "compactionThreshold"} \subseteq DOMAIN l
           /\ l.compactionThreshold = Floor70(l.contextWindow)
           /\ l.compactionThreshold <= l.contextWindow
           /\ events[i].model \notin DOMAIN MODEL_LIMITS => l.contextWindow = 128000

-----------------------------------------------------------------------------
(* The sliding-window rate limiter (rate-limit.ts).  events is the bag of   *)
(* the allowed calls, each [userId, at]; the Map is a function from the     *)
(* user ids it holds to their timestamp lists.                              *)

MAX_MESSAGES == 10

WINDOW_MS == 60000

\* how far Date.now() moves between two readings, when it moves
RateStep == 30000

MaxRateNow == 61000

MaxAllowed == 12

UserIds == {1, 2}

\* userTimestamps.get(userId) ?? []
TimestampsOf(ut, userId) == IF userId \in DOMAIN ut THEN ut[userId] ELSE <<>>

MapSet(map, key, value) ==
    [k \in DOMAIN map \cup {key} |-> IF k = key THEN value ELSE map[k]]

CheckRateLimit_ElevenAllowed(ut, userId, at) ==
    LET windowStart == at - WINDOW_MS
        timestamps == SelectSeq(TimestampsOf(ut, userId), LAMBDA ts : ts > windowStart)
    IN  IF Len(timestamps) > MAX_MESSAGES
        THEN [allowed |-> FALSE, retryAfterMs |-> timestamps[1] + WINDOW_MS - at,
              userTimestamps |-> MapSet(ut, userId, timestamps)]
        ELSE [allowed |-> TRUE, retryAfterMs |-> 0,
              userTimestamps |-> MapSet(ut, userId, Append(timestamps, at))]

\* checkRateLimit(userId) with Date.now() = at: the result and the Map after
CheckRateLimit(ut, userId, at) ==
    LET windowStart == at - WINDOW_MS
        timestamps == SelectSeq(TimestampsOf(ut, userId), LAMBDA ts : ts > windowStart)
    IN  IF Len(timestamps) >= MAX_MESSAGES
        THEN [allowed |-> FALSE, retryAfterMs |-> timestamps[1] + WINDOW_MS - at,
              userTimestamps |-> MapSet(ut, userId, timestamps)]
        ELSE [allowed |-> TRUE, retryAfterMs |-> 0,
              userTimestamps |-> MapSet(ut, userId, Append(timestamps, at))]

InitRate ==
    /\ tools = StartupTools
    /\ recentFingerprints = <<>>
    /\ executed = <<>>
    /\ dlog = <<>>
    /\ ChatIdle

\* time passes between two calls
RateTick ==
    /\ dateNow + RateStep <= MaxRateNow
    /\ dateNow' = dateNow + RateStep
    /\ UNCHANGED coreVars
    /\ UNCHANGED <<events, toolCallAccumulator, userTimestamps, conversations,
                   conversationsFile, schedules, executing, alertState, lastReplaceTime,
                   memoryCalls, rateResult, checking>>

\* checkRateLimit(userId) called and returned
RateCheck ==
    /\ BagCardinality(events) < MaxAllowed
    /\ \E userId \in UserIds :
         LET r == CheckRateLimit(userTimestamps, userId, dateNow)
         IN  /\ userTimestamps' = r.userTimestamps
             /\ rateResult' = [userId |-> userId, at |-> dateNow, allowed |-> r.allowed,
                               retryAfterMs |-> r.retryAfterMs]
             /\ events' = IF r.allowed
                          THEN events (+) SetToBag({[userId |-> userId, at |-> dateNow]})
                          ELSE events
    /\ UNCHANGED coreVars
    /\ UNCHANGED <<dateNow, toolCallAccumulator, conversations, conversationsFile, schedules,
                   executing, alertState, lastReplaceTime, memoryCalls, checking>>

NextRate == RateTick \/ RateCheck

SpecRate == InitRate /\ [][NextRate]_vars

RateTimes == {StartNow + k * RateStep : k \in 0..((MaxRateNow - StartNow) \div RateStep)}

\* the allowed calls of a user at one time, and in the window (from, to]
AllowedAt(userId, t) == CopiesIn([userId |-> userId, at |-> t], events)

RECURSIVE SumOver(_, _)
SumOver(userId, ts) ==
    IF ts = {} THEN 0
    ELSE LET t == CHOOSE x \in ts : TRUE
         IN  AllowedAt(userId, t) + SumOver(userId, ts \ {t})

AllowedIn(userId, from, to) == SumOver(userId, {t \in RateTimes : from < t /\ t <= to})

StoredAt(userId, t) ==
    Cardinality({i \in 1..Len(TimestampsOf(userTimestamps, userId)) :
                    userTimestamps[userId][i] = t})

\* For every user and every window of 60 seconds ending at a time t and open
\* at t - 60 s, at most 10 calls were allowed in it; the timestamps stored for
\* a user are timestamps of that user's allowed calls, all of those that are
\* less than 60 s old, so a denied call left none.
AtMostTenPerWindow ==
    \A u \in UserIds :
       /\ \A t \in RateTimes : AllowedIn(u, t - WINDOW_MS, t) <= MAX_MESSAGES
       /\ \A t \in RateTimes :
             /\ StoredAt(u, t) <= AllowedAt(u, t)
             /\ t > dateNow - WINDOW_MS => StoredAt(u, t) = AllowedAt(u, t)
       /\ \A i \in 1..Len(TimestampsOf(userTimestamps, u)) :
             userTimestamps[u][i] \in RateTimes

\* the call that has just returned
RateCalled == rateResult' # rateResult \/ userTimestamps' # userTimestamps

\* A call of a user is allowed exactly when fewer than 10 calls of that same
\* user were allowed in the 60 seconds before it, whatever other users did; a
\* denied call adds no timestamp and reports when the oldest one leaves the
\* window; no call changes another user's timestamps.
OutcomeFromOwnCallsOnly ==
      RateCalled =>
          LET u == rateResult'.userId
              before == AllowedIn(u, dateNow - WINDOW_MS, dateNow)
          IN  /\ rateResult'.allowed <=> before < MAX_MESSAGES
              /\ rateResult'.allowed =>
                    /\ events' = events (+) SetToBag({[userId |-> u, at |-> dateNow]})
                    /\ Len(userTimestamps'[u]) = before + 1
              /\ ~rateResult'.allowed =>
                    /\ events' = events
                    /\ Len(userTimestamps'[u]) = MAX_MESSAGES
                    /\ rateResult'.retryAfterMs > 0
                    /\ rateResult'.retryAfterMs <= WINDOW_MS
              /\ \A v \in UserIds \ {u} :
                    TimestampsOf(userTimestamps', v) = TimestampsOf(userTimestamps, v)

\* C24: for every user and every sequence of checkRateLimit calls at
\* non-decreasing times, at most 10 calls are allowed in any window of 60
\* seconds (open at its start); a denied call records no timestamp; whether a
\* call is allowed depends on that user's earlier calls only, and no call
\* changes what is stored for another user.
C24_SlidingWindowPerUser ==
    []AtMostTenPerWindow /\ [][OutcomeFromOwnCallsOnly]_vars

\* user 1 has just been denied an eleventh message, the first ten 30 s old,
\* while user 2 has been served
C24_Witness ==
    /\ ~rateResult.allowed
    /\ rateResult.userId = 1
    /\ rateResult.retryAfterMs = RateStep
    /\ Len(userTimestamps[1]) = MAX_MESSAGES
    /\ 2 \in DOMAIN userTimestamps

-----------------------------------------------------------------------------
(* Conversation history (conversation.ts).  The cache is null until the     *)
(* first use and is then read from conversations.json; every addMessage and *)
(* clearHistory writes the whole store back.  events counts, per chat, the  *)
(* messages added since the last clearHistory, all messages ever added and  *)
(* the clearHistory calls.                                                  *)

MAX_HISTORY == 20

MaxAdds == 22

MaxClears == 2

ChatIds == {7, -100}

\* String(chatId), and Number(key) on the keys of the parsed file
ChatKey(chatId) == IF chatId = 7 THEN "7" ELSE IF chatId = -100 THEN "-100" ELSE "NaN"

KeyChat(key) == IF key = "7" THEN 7 ELSE IF key = "-100" THEN -100 ELSE 0

\* the n-th message added to a chat, as telegram.ts adds them: the user's
\* message, then the assistant's response
ChatMessage(chatId, n, at) ==
    [role |-> IF n % 2 = 1 THEN "user" ELSE "assistant",
     content |-> <<"message", chatId, n>>, timestamp |-> at]

\* JSON.parse of the file into a Map with numeric keys; an empty Map when
\* the file cannot be read
EnsureLoaded(conv, file) ==
    IF conv.loaded THEN conv
    ELSE [loaded |-> TRUE,
          store |-> IF file.exists
                    THEN [c \in {KeyChat(k) : k \in DOMAIN file.store} |->
                            file.store[ChatKey(c)]]
                    ELSE <<>>]

\* the store as an object with string keys, written to the file
SaveToDisk(store) ==
    [exists |-> TRUE,
     store |-> [k \in {ChatKey(c) : c \in DOMAIN store} |-> store[KeyChat(k)]]]

\* history.splice(0, history.length - MAX_HISTORY) when it is too long
TrimHistory_KeepsOldest(history) ==
    IF Len(history) > MAX_HISTORY THEN SubSeq(history, 1, MAX_HISTORY) ELSE history

TrimHistory(history) ==
    IF Len(history) > MAX_HISTORY
    THEN SubSeq(history, Len(history) - MAX_HISTORY + 1, Len(history))
    ELSE history

\* addMessage(chatId, role, content): the cache and the file afterwards
AddMessage(conv, file, chatId, message) ==
    LET loaded == EnsureLoaded(conv, file)
        old == IF chatId \in DOMAIN loaded.store THEN loaded.store[chatId] ELSE <<>>
        store == MapSet(loaded.store, chatId, TrimHistory(Append(old, message)))
    IN  [conversations |-> [loaded |-> TRUE, store |-> store], file |-> SaveToDisk(store)]

\* getHistory(chatId): store.get(chatId) || []
GetHistory(conv, file, chatId) ==
    LET loaded == EnsureLoaded(conv, file)
    IN  IF chatId \in DOMAIN loaded.store THEN loaded.store[chatId] ELSE <<>>

\* clearHistory(chatId): store.delete(chatId), saveToDisk
ClearHistory(conv, file, chatId) ==
    LET loaded == EnsureLoaded(conv, file)
        store == [c \in DOMAIN loaded.store \ {chatId} |-> loaded.store[c]]
    IN  [conversations |-> [loaded |-> TRUE, store |-> store], file |-> SaveToDisk(store)]

NoCounts == [added |-> 0, total |-> 0, clears |-> 0]

CountsOf(chatId) == IF chatId \in DOMAIN events THEN events[chatId] ELSE NoCounts

RECURSIVE SumCounts(_, _)
SumCounts(field, chats) ==
    IF chats = {} THEN 0
    ELSE LET c == CHOOSE x \in chats : TRUE
         IN  CountsOf(c)[field] + SumCounts(field, chats \ {c})

InitConversation ==
    /\ tools = StartupTools
    /\ recentFingerprints = <<>>
    /\ executed = <<>>
    /\ dlog = <<>>
    /\ ChatIdle

convRest == <<dateNow, toolCallAccumulator, userTimestamps, schedules, executing, alertState,
              lastReplaceTime, memoryCalls, rateResult, checking>>

\* addMessage(chatId, role, content) called and returned
AddMsg ==
    /\ SumCounts("total", ChatIds) < MaxAdds
    /\ \E chatId \in ChatIds :
         LET n == CountsOf(chatId).total + 1
             r == AddMessage(conversations, conversationsFile, chatId,
                             ChatMessage(chatId, n, dateNow))
         IN  /\ conversations' = r.conversations
             /\ conversationsFile' = r.file
             /\ events' = MapSet(events, chatId,
                                 [CountsOf(chatId) EXCEPT !.added = @ + 1, !.total = n])
    /\ UNCHANGED coreVars
    /\ UNCHANGED convRest

\* clearHistory(chatId) called and returned (the /clear command)
Clear ==
    /\ SumCounts("clears", ChatIds) < MaxClears
    /\ \E chatId \in ChatIds :
         LET r == ClearHistory(conversations, conversationsFile, chatId)
         IN  /\ conversations' = r.conversations
             /\ conversationsFile' = r.file
             /\ events' = MapSet(events, chatId,
                                 [CountsOf(chatId) EXCEPT !.added = 0, !.clears = @ + 1])
    /\ UNCHANGED coreVars
    /\ UNCHANGED convRest

\* the process is restarted: the cache is gone, the file stays
Restart ==
    /\ conversations.loaded
    /\ conversations' = NotLoaded
    /\ UNCHANGED coreVars
    /\ UNCHANGED convRest
    /\ UNCHANGED <<events, conversationsFile>>

NextConversation == AddMsg \/ Clear \/ Restart

SpecConversation == InitConversation /\ [][NextConversation]_vars

History(chatId) == GetHistory(conversations, conversationsFile, chatId)

\* the last up to 20 of the messages added to a chat since its last clear
MostRecent(chatId) ==
    LET c == CountsOf(chatId)
        len == Min(c.added, MAX_HISTORY)
    IN  [i \in 1..len |-> ChatMessage(chatId, c.total - len + i, StartNow)]

AtMostTwentyMostRecent ==
    \A chatId \in ChatIds :
       /\ Len(History(chatId)) <= MAX_HISTORY
       /\ History(chatId) = MostRecent(chatId)

ClearedOnly ==
    \A chatId \in ChatIds :
       CountsOf(chatId).clears' = CountsOf(chatId).clears + 1 =>
          /\ History(chatId)' = <<>>
          /\ \A other \in ChatIds \ {chatId} : History(other)' = History(other)

\* C25: after any sequence of addMessage and clearHistory calls, also across
\* restarts, the history of each chat holds at most 20 messages, the ones
\* added last to that chat since it was cleared, in the order they were
\* added; clearHistory of a chat leaves that chat's history empty and every
\* other chat's history as it was.
C25_LastTwentyPerChat ==
    []AtMostTwentyMostRecent /\ [][ClearedOnly]_vars

\* a chat has been cleared while the other one holds more than it may keep,
\* and got one message since
C25_Witness ==
    /\ CountsOf(7).total = 21
    /\ CountsOf(7).clears = 0
    /\ Len(History(7)) = MAX_HISTORY
    /\ History(7)[1].content = <<"message", 7, 2>>
    /\ CountsOf(-100) = [added |-> 0, total |-> 1, clears |-> 1]
    /\ History(-100) = <<>>
    /\ ~conversations.loaded

-----------------------------------------------------------------------------
(* The health monitor's alert state (health.ts:120-166).  runHealthChecks   *)
(* awaits each processCheckResult before it takes the next result, and a    *)
(* cycle is taken to end before the next one starts; Date.now() may move    *)
(* while sendAlert is awaited.  events holds, per check, what an observer   *)
(* of the results and of the messages sent knows: the previous result, the  *)
(* time of the last alert, whether an alert is unresolved, and counters.    *)

CHECK_INTERVAL_MS == 300000

REALERT_INTERVAL_MS == 3600000

MaxHealthNow == 3901000

MaxResults == 4

CheckNames == {"github-memory", "openai-tokens"}

\* state?.alerted
Alerted(as, name) == name \in DOMAIN as /\ as[name].alerted

WhatToSend_AtOneHour(as, name, ok, at) ==
    IF ~ok
    THEN IF ~Alerted(as, name) \/ at - as[name].lastAlertTime >= REALERT_INTERVAL_MS
         THEN "alert" ELSE "none"
    ELSE IF Alerted(as, name) THEN "resolved" ELSE "none"

\* processCheckResult up to its await: what it hands to sendAlert, if anything
WhatToSend(as, name, ok, at) ==
    IF ~ok
    THEN IF ~Alerted(as, name) \/ at - as[name].lastAlertTime > REALERT_INTERVAL_MS
         THEN "alert" ELSE "none"
    ELSE IF Alerted(as, name) THEN "resolved" ELSE "none"

\* processCheckResult after its await: alertState.set(...) or alertState.delete(name)
AfterSend(as, chk) ==
    IF chk.send = "alert"
    THEN MapSet(as, chk.name, [alerted |-> TRUE, lastAlertTime |-> chk.at])
    ELSE [n \in DOMAIN as \ {chk.name} |-> as[n]]

NoResults ==
    [prev |-> "none", lastAlertAt |-> 0, unresolved |-> FALSE, sent |-> "none",
     results |-> 0, alerts |-> 0]

Observed(name) == IF name \in DOMAIN events THEN events[name] ELSE NoResults

\* what the observer knows after one more result and what was sent for it
Observe(h, ok, at, sent) ==
    [prev |-> IF ok THEN "ok" ELSE "fail",
     lastAlertAt |-> IF sent = "alert" THEN at ELSE h.lastAlertAt,
     unresolved |-> IF sent = "alert" THEN TRUE
                    ELSE IF sent = "resolved" THEN FALSE ELSE h.unresolved,
     sent |-> sent,
     results |-> h.results + 1,
     alerts |-> h.alerts + (IF sent = "alert" THEN 1 ELSE 0)]

RECURSIVE ResultsSoFar(_)
ResultsSoFar(names) ==
    IF names = {} THEN 0
    ELSE LET n == CHOOSE x \in names : TRUE
         IN  Observed(n).results + ResultsSoFar(names \ {n})

InitHealth ==
    /\ tools = StartupTools
    /\ recentFingerprints = <<>>
    /\ executed = <<>>
    /\ dlog = <<>>
    /\ ChatIdle

healthRest == <<toolCallAccumulator, userTimestamps, conversations, conversationsFile,
                schedules, executing, lastReplaceTime, memoryCalls, rateResult>>

\* time passes: to the next cycle, or most of the hour
HealthTick ==
    /\ \E d \in {CHECK_INTERVAL_MS, REALERT_INTERVAL_MS - CHECK_INTERVAL_MS} :
         /\ dateNow + d <= MaxHealthNow
         /\ dateNow' = dateNow + d
    /\ UNCHANGED coreVars
    /\ UNCHANGED healthRest
    /\ UNCHANGED <<events, alertState, checking>>

\* processCheckResult(name, result) called: it returns at once when there is
\* nothing to send, and otherwise is suspended in sendAlert
ProcessCheckResult ==
    /\ checking = NotChecking
    /\ \E name \in CheckNames, ok \in BOOLEAN :
         LET send == WhatToSend(alertState, name, ok, dateNow)
         IN  /\ ResultsSoFar(CheckNames) < MaxResults
             /\ events' = MapSet(events, name, Observe(Observed(name), ok, dateNow, send))
             /\ checking' = IF send = "none" THEN NotChecking
                            ELSE [name |-> name, ok |-> ok, at |-> dateNow, send |-> send]
    /\ UNCHANGED coreVars
    /\ UNCHANGED healthRest
    /\ UNCHANGED <<dateNow, alertState>>

\* sendAlert has returned: the alert state is updated
AlertSent ==
    /\ checking # NotChecking
    /\ alertState' = AfterSend(alertState, checking)
    /\ checking' = NotChecking
    /\ UNCHANGED coreVars
    /\ UNCHANGED healthRest
    /\ UNCHANGED <<dateNow, events>>

NextHealth == HealthTick \/ ProcessCheckResult \/ AlertSent

SpecHealth == InitHealth /\ [][NextHealth]_vars

-----------------------------------------------------------------------------
(* The scheduler (scheduler.ts:144-214).  Date.now() counts ms from the     *)
(* start of a calendar hour, so the calendar minute of a time is its        *)
(* quotient by 60000.  tick() runs to its end without suspending: each      *)
(* executeTask it starts runs up to await chat(...).  events is the bag of  *)
(* the executions started, each [id, minute].                               *)

MINUTE_MS == 60000

\* how far Date.now() moves between two steps of the scheduler, when it moves
SchedStep == 30000

MaxSchedNow == 151000

MaxStarts == 4

\* lastRun: null
NoLastRun == 0

Task(id, schedule, enabled) ==
    [id |-> id, schedule |-> schedule, enabled |-> enabled, lastRun |-> NoLastRun]

\* what schedules.json may hold when the scheduler is started
TaskLists ==
    {<<Task("a1b2c3", s, e)>> : s \in {"* * * * *", "*/2 * * * *"}, e \in BOOLEAN}
    \cup {<<Task("a1b2c3", "* * * * *", TRUE), Task("d4e5f6", "1 * * * *", TRUE)>>}

\* date.getMinutes(), and the five date fields tick() compares
GetMinutes(at) == (at \div MINUTE_MS) % 60

CalendarMinute(at) == at \div MINUTE_MS

\* fieldMatches on the minute field; the other four fields are "*"
MatchesCron(schedule, at) ==
    CASE schedule = "* * * * *" -> TRUE
      [] schedule = "*/2 * * * *" -> GetMinutes(at) % 2 = 0
      [] schedule = "1 * * * *" -> GetMinutes(at) = 1
      [] OTHER -> FALSE

\* the three tests of tick() on one task
ShouldFire(task, at) ==
    /\ task.enabled
    /\ MatchesCron(task.schedule, at)
    /\ ~(task.lastRun # NoLastRun /\ CalendarMinute(task.lastRun) = CalendarMinute(at))

\* the tasks tick() starts, in the order of schedules
RECURSIVE Fired(_, _)
Fired(tasks, at) ==
    IF tasks = <<>> THEN <<>>
    ELSE (IF ShouldFire(Head(tasks), at) THEN <<Head(tasks).id>> ELSE <<>>)
         \o Fired(Tail(tasks), at)

RECURSIVE StartsOf(_, _)
StartsOf(ids, at) ==
    IF ids = <<>> THEN EmptyBag
    ELSE SetToBag({[id |-> Head(ids), minute |-> CalendarMinute(at)]})
         (+) StartsOf(Tail(ids), at)

InitScheduler ==
    /\ tools = StartupTools
    /\ recentFingerprints = <<>>
    /\ executed = <<>>
    /\ dlog = <<>>
    /\ ChatIdle

schedRest == <<toolCallAccumulator, userTimestamps, conversations, conversationsFile,
               alertState, lastReplaceTime, memoryCalls, rateResult, checking>>

\* startScheduler(): loadSchedules()
StartScheduler ==
    /\ schedules = <<>>
    /\ schedules' \in TaskLists
    /\ UNCHANGED coreVars
    /\ UNCHANGED schedRest
    /\ UNCHANGED <<dateNow, events, executing>>

SchedulerClock ==
    /\ dateNow + SchedStep <= MaxSchedNow
    /\ dateNow' = dateNow + SchedStep
    /\ UNCHANGED coreVars
    /\ UNCHANGED schedRest
    /\ UNCHANGED <<schedules, events, executing>>

\* tick(), whenever the timer calls it
SchedulerTick ==
    /\ schedules # <<>>
    /\ LET ids == Fired(schedules, dateNow)
       IN  /\ BagCardinality(events) + Len(ids) <= MaxStarts
           /\ executing' = executing \o ids
           /\ events' = events (+) StartsOf(ids, dateNow)
    /\ UNCHANGED coreVars
    /\ UNCHANGED schedRest
    /\ UNCHANGED <<dateNow, schedules>>

\* an executeTask call resumes after chat() and sendTelegramMessage, on
\* either path: task.lastRun = Date.now(); saveSchedules()
TaskDone ==
    /\ \E i \in 1..Len(executing) :
         /\ schedules' = [k \in 1..Len(schedules) |->
                            IF schedules[k].id = executing[i]
                            THEN [schedules[k] EXCEPT !.lastRun = dateNow]
                            ELSE schedules[k]]
         /\ executing' = SubSeq(executing, 1, i - 1) \o SubSeq(executing, i + 1, Len(executing))
    /\ UNCHANGED coreVars
    /\ UNCHANGED schedRest
    /\ UNCHANGED <<dateNow, events>>

NextScheduler == StartScheduler \/ SchedulerClock \/ SchedulerTick \/ TaskDone

SpecScheduler == InitScheduler /\ [][NextScheduler]_vars

\* C26: an enabled task is started at most once for a calendar minute,
\* whenever the ticks come and however long an execution takes, also when a
\* tick comes in the minute in which an execution was started and is still
\* running.
C26_AtMostOneStartPerMinute ==
    \A e \in BagToSet(events) : CopiesIn(e, events) <= 1

-----------------------------------------------------------------------------
(* The memory guard (memory/tools.ts:30-139).  executeMemoryTool validates  *)
(* synchronously, then awaits the write to the memory repository; two turn  *)
(* sequences (the Telegram handler and a scheduled task) can each have a    *)
(* call under way.  events is the bag of the writes that succeeded, each    *)
(* [category, action, at].                                                  *)

CONTENT_MAX_CHARS == 2000

REPLACE_THROTTLE_MS == 300000

\* how far Date.now() moves between two steps, when it moves
MemoryStep == 150000

MaxMemoryNow == 451000

MaxWrites == 2

MemoryCategories == {"projects", "people"}

\* content.length of the contents tried: one within the limit, one over it
ContentLengths == {12, CONTENT_MAX_CHARS + 1}

\* validateMemoryContent, tests 1 and 2, on content without dangerous patterns
ValidateMemoryContent(lrt, category, action, length, at) ==
    IF length > CONTENT_MAX_CHARS THEN "rejected: size"
    ELSE IF /\ action = "replace"
            /\ category \in DOMAIN lrt
            /\ at - lrt[category] < REPLACE_THROTTLE_MS
    THEN "rejected: throttled"
    ELSE "valid"

InitMemory ==
    /\ tools = StartupTools
    /\ recentFingerprints = <<>>
    /\ executed = <<>>
    /\ dlog = <<>>
    /\ ChatIdle

memoryRest == <<toolCallAccumulator, userTimestamps, conversations, conversationsFile,
                schedules, executing, alertState, rateResult, checking>>

MemoryClock ==
    /\ dateNow + MemoryStep <= MaxMemoryNow
    /\ dateNow' = dateNow + MemoryStep
    /\ UNCHANGED coreVars
    /\ UNCHANGED memoryRest
    /\ UNCHANGED <<events, lastReplaceTime, memoryCalls>>

\* executeMemoryTool(args) called by a turn sequence: rejected at once, or
\* suspended in writeMemoryFile / appendToMemoryFile
ExecuteMemoryTool(c) ==
    /\ memoryCalls[c].pc # "writing"
    /\ \E category \in MemoryCategories, action \in {"add", "replace"},
          length \in ContentLengths :
         LET v == ValidateMemoryContent(lastReplaceTime, category, action, length, dateNow)
         IN  memoryCalls' = [memoryCalls EXCEPT ![c] =
                [pc |-> IF v = "valid" THEN "writing" ELSE "idle",
                 category |-> category, action |-> action,
                 result |-> IF v = "valid" THEN "none" ELSE v]]
    /\ UNCHANGED coreVars
    /\ UNCHANGED memoryRest
    /\ UNCHANGED <<dateNow, events, lastReplaceTime>>

\* the write has resolved: lastReplaceTime.set(category, Date.now()) after a
\* replace, and "Memory updated"
MemoryWritten(c) ==
    /\ memoryCalls[c].pc = "writing"
    /\ BagCardinality(events) < MaxWrites
    /\ lastReplaceTime' = IF memoryCalls[c].action = "replace"
                          THEN MapSet(lastReplaceTime, memoryCalls[c].category, dateNow)
                          ELSE lastReplaceTime
    /\ events' = events (+) SetToBag({[category |-> memoryCalls[c].category,
                                       action |-> memoryCalls[c].action, at |-> dateNow]})
    /\ memoryCalls' = [memoryCalls EXCEPT ![c].pc = "idle", ![c].result = "updated"]
    /\ UNCHANGED coreVars
    /\ UNCHANGED memoryRest
    /\ UNCHANGED dateNow

\* the write has rejected: "Failed to update memory", nothing recorded
MemoryWriteFailed(c) ==
    /\ memoryCalls[c].pc = "writing"
    /\ memoryCalls' = [memoryCalls EXCEPT ![c].pc = "idle", ![c].result = "failed"]
    /\ UNCHANGED coreVars
    /\ UNCHANGED memoryRest
    /\ UNCHANGED <<dateNow, events, lastReplaceTime>>

NextMemory ==
    \/ MemoryClock
    \/ \E c \in Callers : ExecuteMemoryTool(c)
    \/ \E c \in Callers : MemoryWritten(c)
    \/ \E c \in Callers : MemoryWriteFailed(c)

SpecMemory == InitMemory /\ [][NextMemory]_vars

\* C28: for each category the replace writes that were accepted and written
\* are at least 5 minutes apart, also when two replace calls for the category
\* are under way at once in different turn sequences; an add is never
\* rejected by the throttle.
C28_OneReplacePerWindow ==
    /\ \A w1, w2 \in BagToSet(events) :
          ( /\ w1.action = "replace" /\ w2.action = "replace"
            /\ w1.category = w2.category )
          => /\ CopiesIn(w1, events) = 1
             /\ w1 # w2 => \/ w2.at - w1.at >= REPLACE_THROTTLE_MS
                           \/ w1.at - w2.at >= REPLACE_THROTTLE_MS
    /\ \A c \in Callers :
          memoryCalls[c].action = "add" => memoryCalls[c].result # "rejected: throttled"


(***************************************************************************)
(* Where in a turn sequence compactMessages is called.                     *)
(***************************************************************************)

\* The steps that show the compaction engine at work: its verdict recorded,
\* its backend call made, or the running list replaced by another one that
\* is not one message longer.
CompactionEngineActs ==
    \/ compaction' # compaction
    \/ backendCalls'.compaction # backendCalls.compaction
    \/ (messages' # messages /\ pc # "idle" /\ Len(messages') # Len(messages) + 1)

TopOfTurn == pc = "turn" /\ pc' = "call"

\* C31: the compaction engine acts only at the top of a turn, before the
\* primary backend call of that turn; it is invoked there exactly when the
\* estimate of the running list is strictly above the compaction threshold
\* of the model, it makes at most one backend call, and the list it returns
\* is the running list the primary call sends; a turn has one top, the turn
\* counter moving on only after the tool calls of the turn.
C31_CompactionOnlyAtTopOfTurn ==
    [][ /\ CompactionEngineActs => TopOfTurn
        /\ TopOfTurn
           => LET over == EstimateTokens(messages)
                            > GetModelLimits(Model).compactionThreshold
              IN  /\ turn' = turn
                  /\ (compaction' # "none") <=> over
                  /\ ~over => messages' = messages /\ backendCalls' = backendCalls
                  /\ over => /\ \E out \in CompactionOutcomesFor(messages, keep) :
                                   messages' = CompactMessages(messages, keep, out)
                             /\ backendCalls'.compaction <= backendCalls.compaction + 1
        /\ (pc = "call" /\ pc' # "call")
           => /\ requests'[Len(requests')].req = PrimaryRequest(messages)
              /\ pc' # "turn"
        /\ (pc' = "turn" /\ pc # "turn")
           => pc = "idle" \/ (pc = "tools" /\ turn' = turn + 1) ]_vars

\* A primary call was sent with the list a compaction had just returned.
C31_Witness ==
    /\ pc = "tools"
    /\ compaction = "done"
    /\ Len(requests) >= 2
    /\ requests[Len(requests) - 1].req = CompactionRequest
    /\ requests[Len(requests)].req.kind = "primary"
    /\ requests[Len(requests)].req.messages = keep + 3


(***************************************************************************)
(* Termination of a turn sequence.  Every await of chat() is on a call     *)
(* that returns or raises, and the event loop then resumes chat(): a turn  *)
(* sequence stops only where chat() has no statement left to run.  It      *)
(* terminates if every step lowers a natural number and a step is possible *)
(* wherever no outcome has been reached.                                   *)
(***************************************************************************)

PrimaryCalls == Cardinality({i \in 1..Len(requests) : requests[i].req.kind = "primary"})

CompactionCallsMade ==
    Cardinality({i \in 1..Len(requests) : requests[i].req.kind = "compaction"})

TerminalOutcome == pc = "returned" /\ outcome.kind \in {"DONE", "CEILING", "ERROR"}

\* chat() rejected before the loop: the token or the system prompt failed
StartFailed == pc = "threw" /\ outcome.kind = "EXCEPTION"

CallBudget ==
    /\ PrimaryCalls <= MaxToolTurns
    /\ backendCalls.summary <= 1
    /\ CompactionCallsMade = backendCalls.compaction
    /\ CompactionCallsMade <= PrimaryCalls + (IF pc = "call" THEN 1 ELSE 0)

\* The statements chat() has left at most: per turn the compaction test, the
\* primary call and one dispatch per tool call of the largest response.
MaxCallsInTurn ==
    LastOf({Len(ToolCallsArray(s)) : s \in UNION {Streams(t) : t \in 0..MaxToolTurns}})

TurnWeight == MaxCallsInTurn + 3

StepsLeft ==
    CASE pc = "idle" -> (MaxToolTurns + 1) * TurnWeight + 3
      [] pc = "turn" -> (MaxToolTurns - turn) * TurnWeight + 2
      [] pc = "call" -> (MaxToolTurns - turn) * TurnWeight + 1
      [] pc = "tools" -> (MaxToolTurns - turn - 1) * TurnWeight + 3
                           + (Len(toolCallsArray) - nextCall)
      [] OTHER -> 0

\* The loop over toolCallsArray has a call left, and its dispatch an answer.
CanDispatch ==
    /\ pc = "tools"
    /\ nextCall \in 1..Len(toolCallsArray)
    /\ OutcomesFor(tools, recentFingerprints, toolCallsArray[nextCall].name,
                   toolCallsArray[nextCall].arguments) # {}

CanGoOnUnlessEnded ==
    IF TerminalOutcome \/ StartFailed
    THEN ~ENABLED Next
    ELSE \/ ENABLED (StartChat \/ Compact \/ NoCompact \/ PrimaryCall \/ Summarize)
         \/ CanDispatch

OutcomeStays == (TerminalOutcome \/ StartFailed) => UNCHANGED <<outcome, pc, messages>>

\* C32 (as stated): a turn sequence that has come to rest has reached DONE,
\* CEILING_REACHED or the transport-error result.
C32_Original == (pc # "idle" /\ ~ENABLED Next) => TerminalOutcome

\* C32: every step of a turn sequence lowers the number of statements it has
\* left, which is never negative, and it can take a step unless it has
\* reached one of the outcomes DONE, CEILING_REACHED or the transport-error
\* result or has ended before its first turn with the exception of a failed
\* token or system-prompt load; it makes at most maxToolTurns primary backend
\* calls, at most one summary call and at most one compaction call per turn,
\* and an outcome reached is never left.
C32_TerminatesWithinBudget ==
    /\ [](CallBudget /\ StepsLeft >= 0)
    /\ []CanGoOnUnlessEnded
    /\ [][StepsLeft' < StepsLeft /\ OutcomeStays]_vars

\* The longest run: turns compacted and answered with tool calls, then the
\* summary.
C32_Witness ==
    /\ TerminalOutcome
    /\ outcome.kind = "CEILING"
    /\ PrimaryCalls = MaxToolTurns
    /\ backendCalls.summary = 1
    /\ CompactionCallsMade >= 1


(***************************************************************************)
(* The progress callback.                                                  *)
(***************************************************************************)

\* The primary call of this step was answered by a stream during whose
\* reading an invocation of onChunk threw.
CallbackFailed ==
    /\ pc = "call"
    /\ Len(responses') = Len(responses) + 1
    /\ responses'[Len(responses')].kind = "callback"

\* C33: a primary call during which the progress callback fails goes on as
\* with a callback that succeeds: the tool calls of the stream are the ones
\* dispatched next, or, when there are none, the text of the stream without
\* its think segments is returned as the final text.
C33_CallbackFailureChangesNothing ==
    [][ CallbackFailed
        => LET r == responses'[Len(responses')]
           IN  IF Len(r.calls) > 0
               THEN pc' = "tools" /\ toolCallsArray' = r.calls
               ELSE /\ pc' = "returned"
                    /\ outcome' = [kind |-> "DONE", text |-> StripThinkTags(r.content)] ]_vars


(***************************************************************************)
(* A run of identical dispatches: the same registered tool with the same   *)
(* argument text, nothing else touching the detector in between.           *)
(***************************************************************************)

MaxRun == 7

RunInputs == {in \in DispatchInputs : in[1] \in DOMAIN StartupTools}

\* dispatchToolCall(name, argsJson, ...) with the name and the argument text
\* of the first dispatch of the run
DispatchSame ==
    /\ Len(dlog) < MaxRun
    /\ \E in \in RunInputs :
         /\ dlog # <<>> => in = <<dlog[1].name, dlog[1].args>>
         /\ \E out \in OutcomesFor(tools, recentFingerprints, in[1], in[2]) :
              LET r == DispatchToolCall(tools, recentFingerprints, in[1], in[2], out)
              IN  /\ recentFingerprints' = r.buf
                  /\ executed' = IF r.ran THEN Append(executed, <<in[1], in[2]>>)
                                 ELSE executed
                  /\ dlog' = Append(dlog, [op |-> "dispatch", name |-> in[1],
                                           args |-> in[2],
                                           before |-> recentFingerprints,
                                           result |-> r.result, ran |-> r.ran])
    /\ UNCHANGED tools
    /\ UNCHANGED chatVars

NextRun == DispatchSame

SpecRun == InitDispatch /\ [][NextRun]_vars

\* C34: in a run of identical dispatches of a registered tool that starts
\* with an empty buffer, the attempts numbered 3, 6, 9, ... and no others are
\* answered with the corrective message, without parsing or execution; every
\* other attempt goes on to parsing, and to the executor when the arguments
\* parse; the buffer holds as many fingerprints as attempts were made since
\* the last detection, never more than LOOP_THRESHOLD.
C34_EveryThirdAttemptBlocked ==
    /\ \A i \in 1..Len(dlog) :
         IF i % LOOP_THRESHOLD = 0
         THEN /\ dlog[i].result = LoopMessage(dlog[i].name)
              /\ ~dlog[i].ran
         ELSE /\ dlog[i].result # LoopMessage(dlog[i].name)
              /\ dlog[i].ran = JsonParses(dlog[i].args)
              /\ ~dlog[i].ran => StartsWith(dlog[i].result, FailedPrefix)
              /\ Len(dlog[i].before) = (i - 1) % LOOP_THRESHOLD
    /\ Len(recentFingerprints) = Len(dlog) % LOOP_THRESHOLD
    /\ Len(recentFingerprints) <= LOOP_THRESHOLD

\* Six attempts: the third and the sixth blocked, the fifth executed.
C34_Witness ==
    /\ Len(dlog) >= 6
    /\ dlog[3].result = LoopMessage(dlog[3].name)
    /\ dlog[6].result = LoopMessage(dlog[6].name)
    /\ dlog[4].ran /\ dlog[5].ran
    /\ recentFingerprints = <<>>


(***************************************************************************)
(* An executor that raises.                                                *)
(***************************************************************************)

\* What a dispatch that reached the executor of the tool can return.
ExecutorAnswers(name) ==
    {IF out.kind = "raise" THEN FailedToParse(out.text) ELSE out.text :
        out \in ExecOutcomes(name)}

\* C35: every dispatch of the turn loop ends with a string that the loop
\* appends as the tool message of the call before it goes on with the next
\* call or the next turn; when the executor was invoked, the string is what
\* it resolved to or, when it raised, its message behind "Failed to parse
\* tool arguments: ".
C35_ExecutorFailureIsToolResult ==
    [][ pc = "tools"
        => LET tc == toolCallsArray[nextCall]
               e == dlog'[Len(dlog')]
           IN  /\ Len(dlog') = Len(dlog) + 1
               /\ e.ran => e.result \in ExecutorAnswers(tc.name)
               /\ messages' = Append(messages,
                                     Msg("tool", "string", e.result, <<>>, <<>>, tc.id))
               /\ pc' \in {"tools", "turn"}
               /\ outcome' = outcome ]_vars

\* The executor of run_code raised and the loop went on to the next turn.
C35_Witness ==
    /\ pc = "turn"
    /\ dlog # <<>>
    /\ dlog[Len(dlog)].ran
    /\ dlog[Len(dlog)].result = FailedToParse(Lit("ENOENT", 6))
    /\ messages[Len(messages)].role = "tool"
    /\ messages[Len(messages)].content = FailedToParse(Lit("ENOENT", 6))


(***************************************************************************)
(* A summarizing call that answers without content.                        *)
(***************************************************************************)

\* C36: compactMessages returns a list other than the one it was given only
\* when its summarizing call was made and answered with text that is not
\* empty; with an answer without content the list comes back unchanged.
C36_EmptySummaryKeepsList ==
    [][ (pc = "compact" /\ pc' = "compacted" /\ messages' # messages)
        => /\ Len(requests') = Len(requests) + 1
           /\ requests'[Len(requests')].reply.kind = "ok"
           /\ requests'[Len(requests')].reply.content # <<>> ]_vars


(***************************************************************************)
(* The head of the running list.                                           *)
(***************************************************************************)

ListStarted == pc \notin {"idle", "threw"}

\* C37: once the running list is built, its first message is the system
\* message with the system prompt and its second the user message of the
\* call, and no step of the turn sequence, append or compaction, changes
\* either of them.
C37_FirstTwoMessagesStay ==
    /\ [](ListStarted
          => /\ Len(messages) >= 2
             /\ messages[1] = StringMsg("system", SystemPrompt)
             /\ messages[2].role = "user"
             /\ messages[2].ckind = "parts"
             /\ messages[2].parts \in UserContents)
    /\ [][ListStarted => SubSeq(messages', 1, 2) = SubSeq(messages, 1, 2)]_vars

\* After a compaction and the appends of a further turn.
C37_Witness ==
    /\ ListStarted
    /\ Len(messages) > keep + 3
    /\ IsCheckpoint(messages[3])
    /\ messages[Len(messages)].role = "tool"
    /\ messages[2].parts = <<TextPart(UserHuge)>>


(***************************************************************************)
(* Dispatches of unregistered names and the detector.                      *)
(***************************************************************************)

\* the detector's buffer as the step logged at position i left it
LeftBy(i) == IF i < Len(dlog) THEN dlog[i + 1].before ELSE recentFingerprints

Unregistered(i) == IsDispatch(i) /\ dlog[i].name \notin DOMAIN tools

Blocked(i) == IsDispatch(i) /\ dlog[i].result = LoopMessage(dlog[i].name)

\* C38: a dispatch of an unregistered name leaves the detector's buffer as
\* it found it, and after two identical dispatches of a registered tool that
\* both got past the detector, a dispatch of an unregistered name and the
\* same dispatch of the registered tool once more, the last one is answered
\* with the corrective message and its executor is not invoked.
C38_UnknownToolLeavesBuffer ==
    /\ \A i \in 1..Len(dlog) : Unregistered(i) => LeftBy(i) = dlog[i].before
    /\ \A i \in 1..(Len(dlog) - 3) :
         ( /\ dlog[i].name \in DOMAIN tools
           /\ SameCall(i, i + 1) /\ SameCall(i, i + 3)
           /\ ~Blocked(i) /\ ~Blocked(i + 1)
           /\ Unregistered(i + 2) )
         => Blocked(i + 3) /\ ~dlog[i + 3].ran /\ LeftBy(i + 3) = <<>>

\* read_file twice, ghost, read_file again: the fourth dispatch is blocked.
C38_Witness ==
    /\ Len(dlog) = 4
    /\ dlog[1].name = "read_file" /\ dlog[1].before = <<>>
    /\ SameCall(1, 2) /\ SameCall(1, 4)
    /\ dlog[3].name = "ghost"
    /\ dlog[4].result = LoopMessage("read_file")
    /\ recentFingerprints = <<>>


(***************************************************************************)
(* Which tasks a tick starts.                                              *)
(***************************************************************************)

\* an execution of the task was started in the calendar minute
StartedInMinute(id, minute) == BagIn([id |-> id, minute |-> minute], events)

\* C39: a tick that runs now starts exactly the enabled tasks whose cron
\* expression matches the current minute and of which no execution was
\* started in the current calendar minute.
C39_StartedUnlessStartedThisMinute ==
    \A k \in 1..Len(schedules) :
        LET task == schedules[k]
        IN  ShouldFire(task, dateNow)
            <=> /\ task.enabled
                /\ MatchesCron(task.schedule, dateNow)
                /\ ~StartedInMinute(task.id, CalendarMinute(dateNow))

====
